---- MODULE Spec2Model ----
(***************************************************************************)
(* OmegaParse: file classification (detectors.py), record normalization    *)
(* (normalizers.py), timestamp parsing (utils.py) and the orchestration    *)
(* of a run (main.py, aggregators.py).                                     *)
(*                                                                         *)
(* Representation of Python data:                                          *)
(*   - a str is a Text: a sequence of fragments.  A fragment is a piece of *)
(*     the string that the program's substring tests and strptime never    *)
(*     split ("watch", "products", "2023-01-01", "T", ...); the characters *)
(*     of an html/txt file are one-character fragments.                    *)
(*   - a value (None, bool, number, str, list, dict) is a record with one  *)
(*     slot per Python type and a tag t that says which slot is in use.    *)
(*   - dict keys are TLA+ strings.                                         *)
(***************************************************************************)
EXTENDS Integers, Sequences, FiniteSets, TLC

VARIABLES
    ts_in,      \* parse_timestamp: the argument
    ts_out,     \* parse_timestamp: the result, Pending before the call
    file,       \* detect / normalize_file: the file under inspection
    det,        \* detect: the outcome, status "pending" before the call
    cls,        \* normalize_file: the classification passed
    norm,       \* normalize_file: the outcome, status "pending" before the call
    cls2,       \* a second call of normalize_file on the same file: the
    norm2,      \*   classification passed and the outcome
    pc,         \* OmegaParser.parse: the step the run is at
    input,      \* parse: what input_path names
    walked,     \* parse: the files walker.walk() yields, in order
    idx,        \* parse: how many of them the loop has taken
    ingester,   \* Ingester: temp_dir and workspace
    disk,       \* the directories that exist: the user's and the temporary ones
    made,       \* how many directories tempfile.mkdtemp has made
    calls,      \* Ingester: the calls made on it and how each ended
    tree,       \* FileWalker: the entries of the root directory
    walk_out,   \* FileWalker.walk(): the paths yielded, status "pending" before
    walk_out2,  \* a second call of walk() on the same tree
    agg,        \* Aggregator: the summary and the groupings
    fed,        \* Aggregator: the calls made on it and the records passed to it
    clock,      \* the last reading of datetime.now()
    outputs,    \* Emitter: the calls made on it, each with the summary it saw
    emitted,    \* whether the emitter has written the outputs
    escaped     \* the exception that left parse ("" when none)

tsVars == <<ts_in, ts_out>>

normVars == <<cls, norm, cls2, norm2>>

walkVars == <<tree, walk_out, walk_out2>>

\* The variables of the specifications of single components
auxVars == <<calls, walkVars, fed>>

runVars == <<pc, input, walked, idx, ingester, disk, made, agg, emitted, escaped, clock, outputs>>

vars == <<ts_in, ts_out, file, det, cls, norm, cls2, norm2,
          pc, input, walked, idx, ingester, disk, made, calls, agg, emitted, escaped,
          tree, walk_out, walk_out2, fed, clock, outputs>>

\* ------------------------------------------------------------------------
\* Bounds of the model
\* ------------------------------------------------------------------------
MaxTsLen == 5

MaxNameParts == 2

MaxArrayLen == 2

MaxRows == 2

MaxFiles == 2

MaxCalls == 3

MaxEntries == 3

MaxClock == 2

MaxFeeds == 4

\* ------------------------------------------------------------------------
\* Python values
\* ------------------------------------------------------------------------
PyVal(t, b, n, s, l, d) == [t |-> t, b |-> b, n |-> n, s |-> s, l |-> l, d |-> d]

PyNone == PyVal("none", FALSE, 0, <<>>, <<>>, <<>>)

PyBool(b) == PyVal("bool", b, 0, <<>>, <<>>, <<>>)

PyNum(n) == PyVal("num", FALSE, n, <<>>, <<>>, <<>>)

PyStr(s) == PyVal("str", FALSE, 0, s, <<>>, <<>>)

PyList(l) == PyVal("list", FALSE, 0, <<>>, l, <<>>)

PyDict(d) == PyVal("dict", FALSE, 0, <<>>, <<>>, d)

\* Python truthiness: `if value:`
Truthy(v) ==
    CASE v.t = "none" -> FALSE
      [] v.t = "bool" -> v.b
      [] v.t = "num"  -> v.n # 0
      [] v.t = "str"  -> v.s # <<>>
      [] v.t = "list" -> v.l # <<>>
      [] v.t = "dict" -> DOMAIN v.d # {}

\* `sub in text` for a str: sub is one fragment
Contains(text, sub) == \E i \in 1..Len(text) : text[i] = sub

\* ------------------------------------------------------------------------
\* utils.py: timestamps
\* ------------------------------------------------------------------------
\* The directives of a format, one per fragment of the input it consumes.
TIMESTAMP_FORMATS ==
    << <<"%Y-%m-%d", "T", "%H:%M:%S", ".%f", "Z">>,
       <<"%Y-%m-%d", "T", "%H:%M:%S", "Z">>,
       <<"%Y-%m-%d", " ", "%H:%M:%S">>,
       <<"%Y-%m-%d">>,
       <<"%Y-%m-%d", "T", "%H:%M:%S">> >>

\* Fragments of timestamp strings.  "2023-02-30" has the shape of a date but
\* names no day of the calendar: strptime raises ValueError on it.
DateFrags == {"2023-01-01", "2023-05-01"}

TimeFrags == {"12:30:00"}

FracFrags == {".123456"}

TsFrags == {"2023-01-01", "2023-02-30", "T", " ", "12:30:00", ".123456", "Z", "not-a-date"}

\* One directive (or literal) of a format against one fragment of the input.
MatchDirective(frag, dir) ==
    CASE dir = "%Y-%m-%d" -> frag \in DateFrags
      [] dir = "%H:%M:%S" -> frag \in TimeFrags
      [] dir = ".%f"      -> frag \in FracFrags
      [] OTHER            -> frag = dir

\* datetime.strptime(s, fmt): the datetime, or ValueError
ValueError == [ok |-> FALSE, date |-> "", time |-> "", micro |-> ""]

strptime(s, fmt) ==
    IF Len(s) = Len(fmt) /\ \A i \in 1..Len(fmt) : MatchDirective(s[i], fmt[i])
    THEN [ok    |-> TRUE,
          date  |-> s[1],
          time  |-> IF Len(s) >= 3 THEN s[3] ELSE "00:00:00",
          micro |-> IF Len(s) >= 4 /\ fmt[4] = ".%f" THEN s[4] ELSE ".000000"]
    ELSE ValueError

\* The result of parse_timestamp: (datetime or None, uncertain)
TsResult(raised, dt, uncertain) == [raised |-> raised, timestamp |-> dt, uncertain |-> uncertain]

NoDatetime == <<>>

\* The loop of parse_timestamp with `break` in place of `continue`: it gives up
\* at the first format that does not match.
TryFormatsBreak(s, formats, k) ==
    IF k > Len(formats) THEN TsResult(FALSE, NoDatetime, TRUE)
    ELSE LET r == strptime(s, formats[k])
         IN IF r.ok THEN TsResult(FALSE, <<r>>, FALSE)
            ELSE TsResult(FALSE, NoDatetime, TRUE)

RECURSIVE TryFormats(_, _, _)
TryFormats(s, formats, k) ==
    IF k > Len(formats) THEN TsResult(FALSE, NoDatetime, TRUE)
    ELSE LET r == strptime(s, formats[k])
         IN IF r.ok THEN TsResult(FALSE, <<r>>, FALSE)
            ELSE TryFormats(s, formats, k + 1)

\* parse_timestamp(timestamp_str); the argument is a PyVal: None or a str
parse_timestamp(v) ==
    IF ~Truthy(v) THEN TsResult(FALSE, NoDatetime, TRUE)
    ELSE TryFormats(v.s, TIMESTAMP_FORMATS, 1)


\* ------------------------------------------------------------------------
\* Strings: lower(), sorted(), pathlib suffix
\* ------------------------------------------------------------------------
\* str.lower() on one fragment
LowerFrag(f) ==
    CASE f = "Watch"        -> "watch"
      [] f = "History"      -> "history"
      [] f = "MUSIC"        -> "music"
      [] f = "JSON"         -> "json"
      [] f = "Products"     -> "products"
      [] f = "Title"        -> "title"
      [] f = "Channel Name" -> "channel name"
      [] f = "Date"         -> "date"
      [] f = "YouTube "     -> "youtube "
      [] f = "A"            -> "a"
      [] OTHER              -> f

Lower(text) == [i \in 1..Len(text) |-> LowerFrag(text[i])]

\* The keys of the model's dicts in the order of Python's string comparison
KeyOrder ==
    <<"alpha", "beta", "channel", "date", "delta", "gamma", "header", "name",
      "subtitles", "time", "timestamp", "title", "titleUrl", "url", "zeta">>

\* sorted(keys) as a sequence
Sorted(keys) == SelectSeq(KeyOrder, LAMBDA k : k \in keys)

\* Path.suffix without its dot: what follows the last "." of the name, when
\* that dot is neither the first nor the last piece of the name
Suffix(name) ==
    LET dots == {i \in 1..Len(name) : name[i] = "."}
    IN IF dots = {} THEN <<>>
       ELSE LET i == CHOOSE d \in dots : \A e \in dots : e <= d
            IN IF i > 1 /\ i < Len(name) THEN SubSeq(name, i + 1, Len(name)) ELSE <<>>

\* get_file_extension(file_path)
get_file_extension(name) == Lower(Suffix(name))

\* ------------------------------------------------------------------------
\* Files
\* ------------------------------------------------------------------------
\* What a file holds, as its readers see it:
\*   kind "unreadable": open() or read() raises, str(e) = error
\*   kind "json":  the bytes are JSON text of the value json
\*   kind "csv":   the rows csv.reader yields are lines (the first is the
\*                 header); a non-empty error: the reader raises csv.Error
\*                 with that message after them
\*   kind "text":  the characters are text; neither JSON nor CSV
Body(kind, json, lines, text, error) ==
    [kind |-> kind, json |-> json, lines |-> lines, text |-> text, error |-> error]

Unreadable(msg) == Body("unreadable", PyNone, <<>>, <<>>, msg)

JsonBody(v) == Body("json", v, <<>>, <<>>, <<>>)

CsvBody(lines, error) == Body("csv", PyNone, lines, <<>>, error)

TextBody(text) == Body("text", PyNone, <<>>, text, <<>>)

File(dir, name, body) == [dir |-> dir, name |-> name, body |-> body]

\* str(file_path)
PathStr(f) == f.dir \o f.name

\* safe_json_load(file_path): the value, None on any failure
safe_json_load(f) == IF f.body.kind = "json" THEN f.body.json ELSE PyNone

\* ------------------------------------------------------------------------
\* detectors.py
\* ------------------------------------------------------------------------
KeySampleSize == 5

\* FileClassification, and the outcome of detect: status "returned" with the
\* classification, or status "raised" with the exception's type
Outcome(status, exc, file_path, file_type, content_likely, confidence, notes) ==
    [status |-> status, exc |-> exc, file_path |-> file_path, file_type |-> file_type,
     content_likely |-> content_likely, confidence |-> confidence, notes |-> notes]

FileClassification(file_path, file_type, content_likely, confidence, notes) ==
    Outcome("returned", "", file_path, file_type, content_likely, confidence, notes)

Raised(exc) == Outcome("raised", exc, <<>>, "", "", "", <<>>)

NotCalled == Outcome("pending", "", <<>>, "", "", "", <<>>)

\* (content_likely, confidence) with the notes appended so far, or an exception
Guess(content, confidence, notes) ==
    [raised |-> FALSE, exc |-> "", content |-> content, confidence |-> confidence, notes |-> notes]

Throw(exc) == [raised |-> TRUE, exc |-> exc, content |-> "", confidence |-> "", notes |-> <<>>]

\* type_map.get(ext, 'unknown')
TypeMap(ext) ==
    CASE ext = <<"json">> -> "json"
      [] ext = <<"csv">>  -> "csv"
      [] ext = <<"html">> -> "html"
      [] ext = <<"htm">>  -> "html"
      [] ext = <<"txt">>  -> "txt"
      [] OTHER            -> "unknown"

\* _detect_file_type: the type and the notes
DetectFileType(f) ==
    LET ext == get_file_extension(f.name)
        detected == TypeMap(ext)
    IN [file_type |-> detected,
        notes |-> IF detected = "unknown" /\ ext # <<>>
                  THEN << <<"Unknown extension: .">> \o ext >> ELSE <<>>]

\* `sub in v` is defined for str, list and dict; on None, bool and numbers it
\* raises TypeError
Iterable(v) == v.t \in {"str", "list", "dict"}

PyIn(sub, v) ==
    CASE v.t = "str"  -> Contains(v.s, sub)
      [] v.t = "list" -> \E i \in 1..Len(v.l) : v.l[i].t = "str" /\ v.l[i].s = <<sub>>
      [] v.t = "dict" -> sub \in DOMAIN v.d
      [] OTHER        -> FALSE

\* list(keys)[:5]: the keys that set iteration puts first; any five of them
KeySamples(keys) ==
    IF Cardinality(keys) <= KeySampleSize THEN {keys}
    ELSE {S \in SUBSET keys : Cardinality(S) = KeySampleSize}

\* _classify_dict_keys from its third rule on
ClassifyGeneric(keys, notes, sample) ==
    IF "time" \in keys /\ "title" \in keys THEN Guess("media-event", "medium", notes)
    ELSE IF "timestamp" \in keys \/ "time" \in keys \/ "date" \in keys
    THEN Guess("timestamped-event", "low", notes)
    ELSE Guess("unknown", "low",
               Append(notes, <<"Unrecognized JSON structure with keys: ">> \o Sorted(sample)))

\* _classify_dict_keys(obj, notes)
ClassifyDictKeys(obj, notes, sample) ==
    LET keys == DOMAIN obj
    IN IF "title" \in keys /\ "titleUrl" \in keys THEN Guess("watch-event", "high", notes)
       ELSE IF "header" \in keys /\ "title" \in keys
       THEN IF ~Iterable(obj["header"]) THEN Throw("TypeError")
            ELSE IF PyIn("products", obj["header"]) THEN Guess("watch-event", "medium", notes)
            ELSE ClassifyGeneric(keys, notes, sample)
       ELSE ClassifyGeneric(keys, notes, sample)

\* _classify_json_structure(data, notes)
ClassifyJsonStructure(data, notes, sample) ==
    IF data.t = "list" /\ Len(data.l) = 0
    THEN Guess("empty", "high", Append(notes, <<"Empty JSON array">>))
    ELSE IF data.t = "list" /\ data.l[1].t = "dict"
    THEN ClassifyDictKeys(data.l[1].d, notes, sample)
    ELSE IF data.t = "dict"
    THEN ClassifyDictKeys(data.d, notes, sample)
    ELSE Guess("unknown", "low", Append(notes, <<"Unexpected JSON structure">>))

\* The filename rules with the 'search' rule tried before the 'watch' /
\* 'history' rule
FilenameRuleSearchFirst(filename_lower) ==
    IF Contains(filename_lower, "search") THEN "search-history"
    ELSE IF Contains(filename_lower, "watch") \/ Contains(filename_lower, "history")
    THEN IF Contains(filename_lower, "music") THEN "music-history" ELSE "watch-history"
    ELSE IF Contains(filename_lower, "comment") THEN "comments"
    ELSE IF Contains(filename_lower, "subscription") THEN "subscriptions"
    ELSE IF Contains(filename_lower, "playlist") THEN "playlists"
    ELSE ""

\* The filename rules of _classify_content; "" when none applies
FilenameRule(filename_lower) ==
    IF Contains(filename_lower, "watch") \/ Contains(filename_lower, "history")
    THEN IF Contains(filename_lower, "music") THEN "music-history" ELSE "watch-history"
    ELSE IF Contains(filename_lower, "comment") THEN "comments"
    ELSE IF Contains(filename_lower, "search") THEN "search-history"
    ELSE IF Contains(filename_lower, "subscription") THEN "subscriptions"
    ELSE IF Contains(filename_lower, "playlist") THEN "playlists"
    ELSE ""

\* _classify_content(file_path, file_type, notes)
ClassifyContent(f, file_type, notes, sample) ==
    LET rule == FilenameRule(Lower(f.name))
        data == safe_json_load(f)
    IN IF rule # "" THEN Guess(rule, "medium", notes)
       ELSE IF file_type = "json" /\ Truthy(data)
       THEN ClassifyJsonStructure(data, notes, sample)
       ELSE Guess("unknown", "low",
                  Append(notes, <<"Could not determine content type from filename or structure">>))

\* FileDetector.detect(file_path)
detect(f, sample) ==
    LET ft == DetectFileType(f)
        g  == ClassifyContent(f, ft.file_type, ft.notes, sample)
    IN IF g.raised THEN Raised(g.exc)
       ELSE FileClassification(PathStr(f), ft.file_type, g.content, g.confidence, g.notes)

\* The keys of the JSON object that detect inspects in f ({} when none)
InspectedKeys(f) ==
    LET data == safe_json_load(f)
    IN IF data.t = "dict" THEN DOMAIN data.d
       ELSE IF data.t = "list" /\ Len(data.l) > 0 /\ data.l[1].t = "dict" THEN DOMAIN data.l[1].d
       ELSE {}

\* ------------------------------------------------------------------------
\* Specification of parse_timestamp over all short inputs
\* ------------------------------------------------------------------------
TextsUpTo(frags, n) == UNION {[1..k -> frags] : k \in 0..n}

TsInputs == {PyNone} \cup {PyStr(s) : s \in TextsUpTo(TsFrags, MaxTsLen)}

\* ------------------------------------------------------------------------
\* utils.py: record ids
\* ------------------------------------------------------------------------
MAX_RAW_CONTENT_LENGTH == 1000

\* generate_record_id(file_path, index): the first 16 hex digits of the
\* SHA-256 of "<file_path>:<index>", modelled by the hashed content
generate_record_id(file_path, index) == [sha256_of |-> file_path \o <<":">>, index |-> index]

\* ------------------------------------------------------------------------
\* Python str() and repr()
\* ------------------------------------------------------------------------
NumText(n) ==
    CASE n = 0 -> <<"0">>
      [] n = 1 -> <<"1">>
      [] n = 7 -> <<"7">>
      [] OTHER -> <<"<number>">>

RECURSIVE Join(_, _)
Join(texts, sep) ==
    IF texts = <<>> THEN <<>>
    ELSE IF Len(texts) = 1 THEN texts[1]
    ELSE texts[1] \o sep \o Join(Tail(texts), sep)

\* repr(v); a dict is shown with its keys in sorted order
RECURSIVE PyRepr(_)
PyRepr(v) ==
    CASE v.t = "none" -> <<"None">>
      [] v.t = "bool" -> IF v.b THEN <<"True">> ELSE <<"False">>
      [] v.t = "num"  -> NumText(v.n)
      [] v.t = "str"  -> <<"'">> \o v.s \o <<"'">>
      [] v.t = "list" -> <<"[">> \o Join([i \in 1..Len(v.l) |-> PyRepr(v.l[i])], <<", ">>) \o <<"]">>
      [] v.t = "dict" ->
            LET ks == Sorted(DOMAIN v.d)
            IN <<"{">> \o Join([i \in 1..Len(ks) |-> <<"'", ks[i], "'", ": ">> \o PyRepr(v.d[ks[i]])],
                               <<", ">>) \o <<"}">>

\* str(v)
ToStr(v) == IF v.t = "str" THEN v.s ELSE PyRepr(v)

\* ------------------------------------------------------------------------
\* schemas.py and normalizers.py
\* ------------------------------------------------------------------------
\* NormalizedRecord: title, channel and url are None or a str; timestamp is
\* NoDatetime or <<datetime>>; raw_data is a dict
NormalizedRecord(record_id, source_file, content_type, source_type, title, timestamp, timestamp_uncertain, channel, url, raw_data, detected_format, parsing_notes) ==
    [record_id |-> record_id, source_file |-> source_file, content_type |-> content_type,
     source_type |-> source_type, title |-> title, timestamp |-> timestamp,
     timestamp_uncertain |-> timestamp_uncertain, channel |-> channel, url |-> url,
     raw_data |-> raw_data, detected_format |-> detected_format,
     parsing_notes |-> parsing_notes]

\* What a _normalize_* method does: return a list of records, or raise
Returns(records) == [raised |-> FALSE, exc |-> <<>>, records |-> records]

Raises(msg) == [raised |-> TRUE, exc |-> msg, records |-> <<>>]

\* _create_error_record with detected_format 'unknown' for every file
create_error_record_unknown_format(f, classification, error) ==
    << NormalizedRecord(generate_record_id(PathStr(f), 0), PathStr(f), "unknown", "unknown",
                        PyNone, NoDatetime, FALSE, PyNone, PyNone,
                        "error" :> PyStr(error),
                        "unknown",
                        << <<"Parsing error: ">> \o error >>) >>

\* _create_error_record(file_path, classification, error)
create_error_record(f, classification, error) ==
    << NormalizedRecord(generate_record_id(PathStr(f), 0), PathStr(f), "unknown", "unknown",
                        PyNone, NoDatetime, FALSE, PyNone, PyNone,
                        "error" :> PyStr(error),
                        classification.file_type,
                        << <<"Parsing error: ">> \o error >>) >>

\* _extract_field(obj, keys): the first key of keys present in obj with a
\* truthy value decides
RECURSIVE extract_field(_, _)
extract_field(obj, keys) ==
    IF keys = <<>> THEN PyNone
    ELSE LET key == Head(keys)
         IN IF key \in DOMAIN obj /\ Truthy(obj[key])
            THEN LET value == obj[key]
                 IN IF value.t = "list"
                    THEN IF value.l[1].t = "dict" /\ "name" \in DOMAIN value.l[1].d
                         THEN PyStr(ToStr(value.l[1].d["name"]))
                         ELSE PyStr(Join([i \in 1..Len(value.l) |-> ToStr(value.l[i])], <<", ">>))
                    ELSE PyStr(ToStr(value))
            ELSE extract_field(obj, Tail(keys))

\* _infer_content_type with a content type of its own for 'subscriptions'
infer_content_type_subscriptions(classification) ==
    LET content_hint == classification.content_likely
    IN IF content_hint \in {"watch-history", "watch-event"} THEN "watch-event"
       ELSE IF content_hint = "music-history" THEN "music-video"
       ELSE IF content_hint = "comments" THEN "comment"
       ELSE IF content_hint = "search-history" THEN "search"
       ELSE IF content_hint \in {"media-event", "timestamped-event"} THEN "video"
       ELSE IF content_hint = "subscriptions" THEN "subscription"
       ELSE "unknown"

\* _infer_content_type(obj, classification)
infer_content_type(classification) ==
    LET content_hint == classification.content_likely
    IN IF content_hint \in {"watch-history", "watch-event"} THEN "watch-event"
       ELSE IF content_hint = "music-history" THEN "music-video"
       ELSE IF content_hint = "comments" THEN "comment"
       ELSE IF content_hint = "search-history" THEN "search"
       ELSE IF content_hint \in {"media-event", "timestamped-event"} THEN "video"
       ELSE "unknown"

\* _infer_source_type(obj, channel)
infer_source_type(obj, channel) ==
    IF Truthy(channel) THEN "channel"
    ELSE IF Contains(Lower(ToStr(IF "header" \in DOMAIN obj THEN obj["header"] ELSE PyStr(<<>>))),
                     "products")
    THEN "platform-surface"
    ELSE "unknown"

TimestampNote == <<"Timestamp could not be parsed or is missing">>

\* _normalize_json_object with the record id derived from the file path and
\* the classification's content_likely
normalize_json_object_hint_id(obj, f, index, classification) ==
    LET title == extract_field(obj, <<"title", "name", "header">>)
        timestamp_str == extract_field(obj, <<"timestamp", "time", "date", "created_at", "createdAt">>)
        ts == IF Truthy(timestamp_str) THEN parse_timestamp(timestamp_str)
              ELSE TsResult(FALSE, NoDatetime, TRUE)
        channel == extract_field(obj, <<"channel", "channelName", "subtitles", "author">>)
        url == extract_field(obj, <<"url", "titleUrl", "link", "href">>)
    IN NormalizedRecord(generate_record_id(PathStr(f) \o <<classification.content_likely>>, index),
                        PathStr(f),
                        infer_content_type(classification), infer_source_type(obj, channel),
                        title, ts.timestamp, ts.uncertain, channel, url, obj, "json",
                        IF ts.uncertain THEN <<TimestampNote>> ELSE <<>>)

\* _normalize_json_object(obj, file_path, index, classification)
normalize_json_object(obj, f, index, classification) ==
    LET title == extract_field(obj, <<"title", "name", "header">>)
        timestamp_str == extract_field(obj, <<"timestamp", "time", "date", "created_at", "createdAt">>)
        ts == IF Truthy(timestamp_str) THEN parse_timestamp(timestamp_str)
              ELSE TsResult(FALSE, NoDatetime, TRUE)
        channel == extract_field(obj, <<"channel", "channelName", "subtitles", "author">>)
        url == extract_field(obj, <<"url", "titleUrl", "link", "href">>)
    IN NormalizedRecord(generate_record_id(PathStr(f), index), PathStr(f),
                        infer_content_type(classification), infer_source_type(obj, channel),
                        title, ts.timestamp, ts.uncertain, channel, url, obj, "json",
                        IF ts.uncertain THEN <<TimestampNote>> ELSE <<>>)

\* The loop of _normalize_json numbering the records 0, 1, 2, ... instead of
\* by array position
RECURSIVE JsonArrayRecordsDense(_, _, _, _)
JsonArrayRecordsDense(items, from, f, classification) ==
    IF from > Len(items) THEN <<>>
    ELSE (IF items[from].t = "dict"
          THEN <<normalize_json_object(items[from].d, f,
                    Len(SelectSeq(SubSeq(items, 1, from - 1), LAMBDA v : v.t = "dict")),
                    classification)>>
          ELSE <<>>)
         \o JsonArrayRecordsDense(items, from + 1, f, classification)

\* The loop of _normalize_json over data[from..]: enumerate keeps the array
\* position (0-based) of every element
RECURSIVE JsonArrayRecords(_, _, _, _)
JsonArrayRecords(items, from, f, classification) ==
    IF from > Len(items) THEN <<>>
    ELSE (IF items[from].t = "dict"
          THEN <<normalize_json_object(items[from].d, f, from - 1, classification)>>
          ELSE <<>>)
         \o JsonArrayRecords(items, from + 1, f, classification)

\* _normalize_json answering a top-level scalar with the error record
normalize_json_scalar_error(f, classification) ==
    LET data == safe_json_load(f)
    IN IF data.t = "none"
       THEN Returns(create_error_record(f, classification, <<"Failed to parse JSON">>))
       ELSE IF data.t = "list" THEN Returns(JsonArrayRecords(data.l, 1, f, classification))
       ELSE IF data.t = "dict"
       THEN Returns(<<normalize_json_object(data.d, f, 0, classification)>>)
       ELSE Returns(create_error_record(f, classification, <<"Unexpected JSON structure">>))

\* _normalize_json(file_path, classification)
normalize_json(f, classification) ==
    LET data == safe_json_load(f)
    IN IF data.t = "none"
       THEN Returns(create_error_record(f, classification, <<"Failed to parse JSON">>))
       ELSE IF data.t = "list" THEN Returns(JsonArrayRecords(data.l, 1, f, classification))
       ELSE IF data.t = "dict"
       THEN Returns(<<normalize_json_object(data.d, f, 0, classification)>>)
       ELSE Returns(<<>>)

\* ---- csv ----
\* The key of csv.DictReader's restkey (Python None), which is no str
NoneKey == "<None>"

AttributeErrorMsg == <<"'NoneType' object has no attribute 'lower'">>

\* A header cell as a dict key; header cells have at most one fragment
CellKey(cell) == IF cell = <<>> THEN "" ELSE cell[1]

\* csv.DictReader.__next__ for one non-blank row: dict(zip(fieldnames, row)),
\* surplus cells under restkey None, missing cells as restval None
DictRow(fieldnames, row) ==
    LET lf == Len(fieldnames)
        lr == Len(row)
        both == IF lf < lr THEN lf ELSE lr
        key(i) == CellKey(fieldnames[i])
        keys == {key(i) : i \in 1..lf} \cup (IF lf < lr THEN {NoneKey} ELSE {})
    IN [k \in keys |->
          IF \E i \in (lr + 1)..lf : key(i) = k THEN PyNone
          ELSE IF \E i \in 1..both : key(i) = k
          THEN PyStr(row[CHOOSE i \in 1..both : key(i) = k /\ \A j \in 1..both : key(j) = k => j <= i])
          ELSE PyList([j \in 1..(lr - lf) |-> PyStr(row[lf + j])])]

\* {k.lower(): v for k, v in obj.items()}: of the keys that lower() maps to
\* the same key, the one inserted last (the later column) gives the value
LowerKeyed(obj, fieldnames) ==
    LET key(i) == CellKey(fieldnames[i])
        lowered == {LowerFrag(k) : k \in DOMAIN obj}
    IN [kl \in lowered |->
          obj[key(CHOOSE i \in 1..Len(fieldnames) :
                    /\ LowerFrag(key(i)) = kl
                    /\ \A j \in 1..(i - 1) : key(j) # key(i)
                    /\ \A j \in 1..Len(fieldnames) :
                          (LowerFrag(key(j)) = kl /\ \A h \in 1..(j - 1) : key(h) # key(j)) => j <= i)]]

\* The loop of _extract_field_case_insensitive over keys, on obj_lower
RECURSIVE extract_lowered(_, _)
extract_lowered(obj_lower, keys) ==
    IF keys = <<>> THEN PyNone
    ELSE IF Head(keys) \in DOMAIN obj_lower /\ Truthy(obj_lower[Head(keys)])
    THEN PyStr(ToStr(obj_lower[Head(keys)]))
    ELSE extract_lowered(obj_lower, Tail(keys))

\* _extract_field_case_insensitive(obj, keys) raises AttributeError on a key
\* that is None: None has no lower()
LowerRaises(obj) == NoneKey \in DOMAIN obj

\* _normalize_csv_row(row, file_path, index, classification), for a row on
\* which k.lower() does not raise
normalize_csv_row(row, fieldnames, f, index, classification) ==
    LET obj_lower == LowerKeyed(row, fieldnames)
        title == extract_lowered(obj_lower, <<"title", "name", "video title">>)
        timestamp_str == extract_lowered(obj_lower, <<"timestamp", "time", "date">>)
        ts == IF Truthy(timestamp_str) THEN parse_timestamp(timestamp_str)
              ELSE TsResult(FALSE, NoDatetime, TRUE)
        channel == extract_lowered(obj_lower, <<"channel", "channel name", "artist">>)
        url == extract_lowered(obj_lower, <<"url", "link", "video url">>)
    IN NormalizedRecord(generate_record_id(PathStr(f), index), PathStr(f),
                        infer_content_type(classification), infer_source_type(row, channel),
                        title, ts.timestamp, ts.uncertain, channel, url, row, "csv",
                        IF ts.uncertain THEN <<TimestampNote>> ELSE <<>>)

\* The rows csv.DictReader yields: the lines after the header, blank lines
\* (empty rows) skipped
DataRows(lines) == SelectSeq(Tail(lines), LAMBDA row : row # <<>>)

\* _normalize_csv(file_path, classification): any exception met while the
\* file is open replaces the records by the error record
normalize_csv(f, classification) ==
    IF f.body.kind = "unreadable"
    THEN Returns(create_error_record(f, classification, f.body.error))
    ELSE IF f.body.lines = <<>> THEN Returns(<<>>)
    ELSE LET fieldnames == Head(f.body.lines)
             rows == DataRows(f.body.lines)
             dicts == [i \in 1..Len(rows) |-> DictRow(fieldnames, rows[i])]
         IN IF \E i \in 1..Len(rows) : LowerRaises(dicts[i])
            THEN Returns(create_error_record(f, classification, AttributeErrorMsg))
            ELSE IF f.body.error # <<>>
            THEN Returns(create_error_record(f, classification, f.body.error))
            ELSE Returns([i \in 1..Len(rows) |->
                            normalize_csv_row(dicts[i], fieldnames, f, i - 1, classification)])

\* ---- html, txt, unknown ----
\* content[:MAX_RAW_CONTENT_LENGTH]
Truncate(content) ==
    SubSeq(content, 1, IF Len(content) < MAX_RAW_CONTENT_LENGTH THEN Len(content)
                       ELSE MAX_RAW_CONTENT_LENGTH)

\* f.read() inside try/except: the text, or the message of the failure
ReadOrMessage(f) ==
    IF f.body.kind = "unreadable" THEN <<"Error reading file: ">> \o f.body.error
    ELSE f.body.text

\* _normalize_html(file_path, classification)
normalize_html(f, classification) ==
    Returns(<< NormalizedRecord(generate_record_id(PathStr(f), 0), PathStr(f), "unknown", "unknown",
                                PyNone, NoDatetime, FALSE, PyNone, PyNone,
                                "html_content" :> PyStr(Truncate(ReadOrMessage(f))),
                                "html",
                                << <<"HTML files are not fully parsed - stored as unknown">> >>) >>)

\* _normalize_txt(file_path, classification)
normalize_txt(f, classification) ==
    Returns(<< NormalizedRecord(generate_record_id(PathStr(f), 0), PathStr(f), "unknown", "unknown",
                                PyNone, NoDatetime, FALSE, PyNone, PyNone,
                                "text_content" :> PyStr(Truncate(ReadOrMessage(f))),
                                "txt",
                                << <<"Text files are not fully parsed - stored as unknown">> >>) >>)

\* _normalize_unknown(file_path, classification)
normalize_unknown(f, classification) ==
    Returns(<< NormalizedRecord(generate_record_id(PathStr(f), 0), PathStr(f), "unknown", "unknown",
                                PyNone, NoDatetime, FALSE, PyNone, PyNone,
                                "file_type" :> PyStr(<<classification.file_type>>),
                                "unknown",
                                << <<"Unknown file type: ", classification.file_type>> >>) >>)

\* The dispatch of normalize_file on classification.file_type
Dispatch(f, classification) ==
    CASE classification.file_type = "json" -> normalize_json(f, classification)
      [] classification.file_type = "csv"  -> normalize_csv(f, classification)
      [] classification.file_type = "html" -> normalize_html(f, classification)
      [] classification.file_type = "txt"  -> normalize_txt(f, classification)
      [] OTHER                             -> normalize_unknown(f, classification)

\* The outcome of normalize_file: status "returned" with the list of records
Normalized(records) == [status |-> "returned", records |-> records]

NotNormalized == [status |-> "pending", records |-> <<>>]

\* Normalizer.normalize_file(file_path, classification): an exception of the
\* dispatched method is turned into the error record
normalize_file(f, classification) ==
    LET r == Dispatch(f, classification)
    IN IF r.raised THEN Normalized(create_error_record(f, classification, r.exc))
       ELSE Normalized(r.records)

\* ------------------------------------------------------------------------
\* aggregators.py
\* ------------------------------------------------------------------------
\* d[k] = d.get(k, 0) + 1
Increment(d, k) == IF k \in DOMAIN d THEN [d EXCEPT ![k] = @ + 1] ELSE d @@ (k :> 1)

\* d[k].append(r) on a defaultdict(list)
AppendTo(d, k, r) == IF k \in DOMAIN d THEN [d EXCEPT ![k] = Append(@, r)] ELSE d @@ (k :> <<r>>)

\* Aggregator.__init__; the keys of by_source and records_by_channel are strs
\* (Texts), the other keys are the fixed vocabularies
NewAggregator ==
    [total_files |-> 0, total_records |-> 0, by_content_type |-> <<>>, by_source |-> <<>>,
     by_file_type |-> <<>>, unclassified_files |-> <<>>, uncertain_records |-> 0,
     records_by_content_type |-> <<>>, records_by_channel |-> <<>>,
     unclassified_records |-> <<>>, start_time |-> NoDatetime, end_time |-> NoDatetime]

\* The body of the loop of add_records counting a source only for a record
\* that has a channel
AddRecordChannelSources(a, record) ==
    LET by_channel == Truthy(record.channel)
        source == IF by_channel THEN record.channel.s ELSE <<record.source_type>>
    IN [a EXCEPT
          !.total_records = @ + 1,
          !.by_content_type = Increment(@, record.content_type),
          !.records_by_content_type = AppendTo(@, record.content_type, record),
          !.by_source = IF by_channel THEN Increment(@, source) ELSE @,
          !.records_by_channel = IF by_channel THEN AppendTo(@, source, record) ELSE @,
          !.unclassified_records =
              IF record.content_type = "unknown" \/ record.source_type = "unknown"
              THEN Append(@, record) ELSE @,
          !.uncertain_records =
              IF record.timestamp_uncertain \/ Len(record.parsing_notes) > 0 THEN @ + 1 ELSE @,
          !.by_file_type = IF record.detected_format # "" THEN Increment(@, record.detected_format) ELSE @]

\* The body of the loop of add_records for one record
AddRecord(a, record) ==
    LET by_channel == Truthy(record.channel)
        source == IF by_channel THEN record.channel.s ELSE <<record.source_type>>
    IN [a EXCEPT
          !.total_records = @ + 1,
          !.by_content_type = Increment(@, record.content_type),
          !.records_by_content_type = AppendTo(@, record.content_type, record),
          !.by_source = Increment(@, source),
          !.records_by_channel = IF by_channel THEN AppendTo(@, source, record) ELSE @,
          !.unclassified_records =
              IF record.content_type = "unknown" \/ record.source_type = "unknown"
              THEN Append(@, record) ELSE @,
          !.uncertain_records =
              IF record.timestamp_uncertain \/ Len(record.parsing_notes) > 0 THEN @ + 1 ELSE @,
          !.by_file_type = IF record.detected_format # "" THEN Increment(@, record.detected_format) ELSE @]

\* Aggregator.add_records(records)
RECURSIVE add_records(_, _)
add_records(a, records) ==
    IF records = <<>> THEN a ELSE add_records(AddRecord(a, Head(records)), Tail(records))

\* Aggregator.add_file(classification)
add_file(a, classification) ==
    [a EXCEPT
       !.total_files = @ + 1,
       !.unclassified_files =
           IF classification.confidence = "low" \/ classification.content_likely = "unknown"
           THEN Append(@, classification.file_path) ELSE @]

\* No call was made on the aggregator yet
NotFed == [files |-> 0, records |-> 0, calls |-> 0]

\* ------------------------------------------------------------------------
\* walkers.py
\* ------------------------------------------------------------------------
\* A directory entry: a regular file, a directory (with its entries), a
\* directory that cannot be listed, a symbolic link (to the entry of the same
\* directory named target) or another special file.  A name is a Text
Entry(name, kind, children, target) ==
    [name |-> name, kind |-> kind, children |-> children, target |-> target]

RegularFile(name) == Entry(name, "file", {}, <<>>)

Directory(name, children) == Entry(name, "dir", children, <<>>)

UnreadableDirectory(name, children) == Entry(name, "unreadable-dir", children, <<>>)

SymLink(name, target) == Entry(name, "link", {}, target)

SpecialFile(name) == Entry(name, "other", {}, <<>>)

\* FileWalker.__init__: self.skip_patterns
skip_patterns ==
    {<<".", "DS_Store">>, <<"Thumbs", ".", "db">>, <<".", "gitignore">>, <<".", "gitkeep">>}

\* FileWalker.__init__: self.skip_dirs
skip_dirs == {<<".", "git">>, <<"__pycache__">>, <<"node_modules">>, <<".", "venv">>}

\* The names of the model's entries in the order of Python's comparison of
\* the paths of one directory
NameOrder ==
    << <<".", "DS_Store">>, <<".", "csv">>, <<".", "data", ".", "json">>, <<".", "git">>,
       <<".", "gitignore">>, <<".", "gitkeep">>, <<".", "json">>, <<".", "venv">>,
       <<"Thumbs", ".", "db">>, <<"__pycache__">>, <<"a", ".", "json">>, <<"b", ".", "csv">>,
       <<"link", ".", "json">>, <<"node_modules">>, <<"pipe">>, <<"sub">>, <<"zlink">> >>

\* The orders in which iterdir() may list a directory
ListingOrders ==
    {NameOrder, [i \in 1..Len(NameOrder) |-> NameOrder[Len(NameOrder) + 1 - i]]}

\* current_path.iterdir(): the entries in the order listing
iterdir(entries, listing) ==
    LET names == SelectSeq(listing, LAMBDA n : \E e \in entries : e.name = n)
    IN [i \in 1..Len(names) |-> CHOOSE e \in entries : e.name = names[i]]

\* sorted(items): the items in the order of their paths
sorted(items) ==
    LET names == SelectSeq(NameOrder, LAMBDA n : \E i \in 1..Len(items) : items[i].name = n)
    IN [i \in 1..Len(names) |-> items[CHOOSE j \in 1..Len(items) : items[j].name = names[i]]]

\* What a path refers to once symbolic links are followed: the entry itself,
\* the target of a link, or a special file when the link is broken
Followed(item, siblings) ==
    IF item.kind # "link" THEN item
    ELSE IF \E e \in siblings : e.name = item.target /\ e.kind # "link"
    THEN CHOOSE e \in siblings : e.name = item.target /\ e.kind # "link"
    ELSE SpecialFile(item.name)

\* item.is_file() and item.is_dir(): both follow symbolic links
is_file(item, siblings) == Followed(item, siblings).kind = "file"

is_dir(item, siblings) == Followed(item, siblings).kind \in {"dir", "unreadable-dir"}

\* item.name.startswith('.')
StartsWithDot(name) == name # <<>> /\ name[1] = "."

\* FileWalker._recursive_walk(current_path): the paths yielded, a path being
\* the sequence of the names below the root; WalkItems is its loop over the
\* sorted items
RECURSIVE recursive_walk(_, _, _)
RECURSIVE WalkItems(_, _, _, _)
recursive_walk(current_path, directory, listing) ==
    IF directory.kind = "unreadable-dir" THEN <<>>
    ELSE WalkItems(current_path, sorted(iterdir(directory.children, listing)),
                   directory.children, listing)

WalkItems(current_path, items, siblings, listing) ==
    IF items = <<>> THEN <<>>
    ELSE LET item == Head(items)
             rest == WalkItems(current_path, Tail(items), siblings, listing)
         IN IF StartsWithDot(item.name) /\ item.name \notin {<<".", "json">>, <<".", "csv">>}
            THEN rest
            ELSE IF item.name \in skip_patterns THEN rest
            ELSE IF is_file(item, siblings) THEN <<Append(current_path, item.name)>> \o rest
            ELSE IF is_dir(item, siblings)
            THEN IF item.name \in skip_dirs THEN rest
                 ELSE recursive_walk(Append(current_path, item.name),
                                     Followed(item, siblings), listing) \o rest
            ELSE rest

\* The outcome of walk(): the paths in the order they are yielded
Walked(paths) == [status |-> "returned", paths |-> paths]

NotWalked == [status |-> "pending", paths |-> <<>>]

\* FileWalker.walk() on a root that is a directory
walk(root_entries, listing) ==
    Walked(recursive_walk(<<>>, Directory(<<>>, root_entries), listing))

\* ------------------------------------------------------------------------
\* ingest.py
\* ------------------------------------------------------------------------
\* What input_path names: nothing, a directory, a ZIP archive, a .zip file
\* that is no archive, a .zip file whose extraction fails otherwise, a file
\* that is no .zip
InputKinds == {"missing", "directory", "zip", "corrupt-zip", "unextractable-zip", "other-file"}

\* The directory the user passes as input_path
UserDirectory == "input"

\* Ingester.__init__
NewIngester == [temp_dir |-> "None", workspace |-> "None"]

\* The exception Ingester.ingest raises on the input ("" when it returns)
IngestError(kind) ==
    CASE kind = "missing"           -> "FileNotFoundError"
      [] kind = "other-file"        -> "ValueError"
      [] kind = "corrupt-zip"       -> "ValueError"
      [] kind = "unextractable-zip" -> "RuntimeError"
      [] OTHER                      -> ""

\* The message of every such exception, up to the path or the cause that
\* follows it, with one message for the file that is no archive and the
\* archive that is corrupt
IngestMessageShared(kind) ==
    CASE kind = "missing"           -> "Input path does not exist: "
      [] kind = "other-file"        -> "Invalid input: "
      [] kind = "corrupt-zip"       -> "Invalid input: "
      [] kind = "unextractable-zip" -> "Failed to extract ZIP: "
      [] OTHER                      -> ""

\* The message of the exception Ingester.ingest raises, up to the path or the
\* cause that follows it
IngestMessage(kind) ==
    CASE kind = "missing"           -> "Input path does not exist: "
      [] kind = "other-file"        -> "Input must be a ZIP file or directory, got: "
      [] kind = "corrupt-zip"       -> "Invalid ZIP file: "
      [] kind = "unextractable-zip" -> "Failed to extract ZIP: "
      [] OTHER                      -> ""

\* tempfile.mkdtemp(prefix="omegaparser_"): the n-th directory made
mkdtemp(n) == "omegaparser_" \o ToString(n)

\* The inputs on which _extract_zip runs
ZipKinds == {"zip", "corrupt-zip", "unextractable-zip"}

\* shutil.rmtree(dir) inside try/except: the directory is gone, or the
\* removal failed and it is still there
rmtree(existing, dir) == {existing \ {dir}, existing}

\* Ingester.cleanup() that leaves temp_dir and workspace as they are
cleanup_without_reset(ing, exists) == ing

\* Ingester.cleanup(): the ingester afterwards
cleanup(ing, exists) ==
    IF ing.temp_dir # "None" /\ exists THEN NewIngester ELSE ing

\* Ingester.cleanup() removing the directory of the workspace in place of
\* temp_dir
DiskAfterCleanupOfWorkspace(ing, existing) ==
    IF ing.temp_dir # "None" /\ ing.temp_dir \in existing
    THEN rmtree(existing, IF ing.workspace = UserDirectory THEN UserDirectory ELSE ing.temp_dir)
    ELSE {existing}

\* Ingester.cleanup(): the directories that may exist afterwards
DiskAfterCleanup(ing, existing) ==
    IF ing.temp_dir # "None" /\ ing.temp_dir \in existing
    THEN rmtree(existing, ing.temp_dir)
    ELSE {existing}

\* Ingester.ingest(input_path): the ingester afterwards.  _extract_zip makes
\* the temporary directory tmp and, when the extraction fails, calls
\* cleanup() before it raises; _use_directory takes the input as the workspace
ingest(ing, kind, tmp) ==
    LET extracting == [temp_dir |-> tmp, workspace |-> tmp \o "/extracted"]
    IN CASE kind = "zip"       -> extracting
         [] kind \in {"corrupt-zip", "unextractable-zip"} -> cleanup(extracting, TRUE)
         [] kind = "directory" -> [ing EXCEPT !.workspace = UserDirectory]
         [] OTHER              -> ing

\* Ingester.ingest(input_path): the directories that may exist afterwards
DiskAfterIngest(existing, kind, tmp) ==
    CASE kind = "zip" -> {existing \cup {tmp}}
      [] kind \in {"corrupt-zip", "unextractable-zip"} -> rmtree(existing \cup {tmp}, tmp)
      [] OTHER -> {existing}

\* ------------------------------------------------------------------------
\* Inputs: names, JSON values, files
\* ------------------------------------------------------------------------
NameFrags == {"watch", "History", "MUSIC", "comment", "search", "subscription", "playlist", "data"}

Extensions == {"json", "JSON", "csv", "htm", "xml"}

\* Names: up to MaxNameParts fragments and an extension, and names that have
\* no extension
Names ==
    {stem \o <<".", e>> : stem \in TextsUpTo(NameFrags, MaxNameParts) \ {<<>>}, e \in Extensions}
    \cup {<<"README">>, <<".", "json">>, <<"watch", ".">>}

\* The dicts over the given keys, the value of key k drawn from options[k]
RECURSIVE DictsOver(_, _)
DictsOver(keys, options) ==
    IF keys = {} THEN {<<>>}
    ELSE LET k == CHOOSE x \in keys : TRUE
         IN {(k :> v) @@ d : v \in options[k], d \in DictsOver(keys \ {k}, options)}

DictsWithin(keys, options) == UNION {DictsOver(K, options) : K \in SUBSET keys}

\* Values of a 'header' key: every JSON type
HeaderValues ==
    {PyStr(<<"YouTube">>), PyStr(<<"YouTube ", "products">>), PyNum(7), PyNone, PyBool(TRUE),
     PyList(<<PyStr(<<"products">>)>>), PyList(<<>>),
     PyDict("products" :> PyNum(1)), PyDict(<<>>)}

DetectOptions ==
    [k \in {"title", "titleUrl", "header", "time", "zeta"} |->
        CASE k = "title"    -> {PyStr(<<"A">>)}
          [] k = "titleUrl" -> {PyStr(<<"http://x">>)}
          [] k = "header"   -> HeaderValues
          [] k = "time"     -> {PyStr(<<"2023-01-01", "T", "12:30:00", "Z">>)}
          [] k = "zeta"     -> {PyNum(1)}]

DetectObjects == {PyDict(d) : d \in DictsWithin(DOMAIN DetectOptions, DetectOptions)}

Scalars == {PyNone, PyBool(FALSE), PyBool(TRUE), PyNum(0), PyNum(7), PyStr(<<>>), PyStr(<<"A">>)}

\* Elements of the longer arrays
ArrayElements ==
    {PyNum(7),
     PyDict("title" :> PyStr(<<"A">>) @@ "titleUrl" :> PyStr(<<"http://x">>)),
     PyDict("title" :> PyStr(<<"B">>)),
     PyDict("header" :> PyNum(7) @@ "title" :> PyStr(<<"A">>))}

Arrays ==
    {PyList(l) : l \in TextsUpTo(ArrayElements, MaxArrayLen)}
    \cup {PyList(<<o>>) : o \in DetectObjects}

\* An object with more keys than the note of _classify_dict_keys lists
WideObject ==
    PyDict([k \in {"alpha", "beta", "delta", "gamma", "url", "zeta"} |-> PyNum(1)])

DetectJson == Scalars \cup DetectObjects \cup Arrays \cup {WideObject}

ExportDir == <<"/export/">>

PermissionDenied == <<"[Errno 13] Permission denied">>

\* A few bodies for every name, and every JSON value under a few names
DetectFiles ==
    {File(ExportDir, n, b) :
        n \in Names,
        b \in {JsonBody(PyDict("zeta" :> PyNum(1))),
               JsonBody(PyList(<<>>)),
               JsonBody(PyDict("title" :> PyStr(<<"A">>) @@ "titleUrl" :> PyStr(<<"http://x">>))),
               JsonBody(PyDict("header" :> PyNum(7) @@ "title" :> PyStr(<<"A">>))),
               TextBody(<<"h", "i">>),
               Unreadable(PermissionDenied)}}
    \cup
    {File(ExportDir, n, JsonBody(v)) :
        n \in {<<"data", ".", "json">>, <<"data", ".", "JSON">>, <<"MUSIC", ".", "json">>,
               <<"data", ".", "csv">>},
        v \in DetectJson}

IdleFile == File(<<>>, <<>>, TextBody(<<>>))

\* ---- inputs of normalize_file ----
NormOptions ==
    [k \in {"title", "time", "subtitles", "header", "titleUrl"} |->
        CASE k = "title"     -> {PyStr(<<"A">>), PyStr(<<>>)}
          [] k = "time"      -> {PyStr(<<"2023-01-01", "T", "12:30:00", "Z">>), PyStr(<<"not-a-date">>)}
          [] k = "subtitles" -> {PyList(<<PyDict("name" :> PyStr(<<"Ch">>))>>),
                                 PyList(<<PyStr(<<"a">>), PyStr(<<"b">>)>>),
                                 PyList(<<>>)}
          [] k = "header"    -> {PyStr(<<"YouTube ", "Products">>), PyNum(7)}
          [] k = "titleUrl"  -> {PyStr(<<"http://x">>)}]

NormObjects == {PyDict(d) : d \in DictsWithin(DOMAIN NormOptions, NormOptions)}

NormJson ==
    Scalars \cup NormObjects \cup {PyList(l) : l \in TextsUpTo(ArrayElements, MaxArrayLen)}

CsvHeaders ==
    {<< <<"Title">>, <<"Channel Name">>, <<"Date">> >>,
     << <<"alpha">>, <<"alpha">> >>,
     << <<"title">>, <<"Title">> >>,
     <<>>}

CsvRows ==
    {<<>>,
     << <<"Song">>, <<"Artist1">>, <<"2023-05-01">> >>,
     << <<"1">>, <<"2">> >>,
     << <<"1">> >>,
     << <<"1">>, <<"2">>, <<"3">>, <<"4">> >>}

CsvErrorMsg == <<"line contains NUL">>

CsvBodies ==
    {CsvBody(<<>>, <<>>)}
    \cup {CsvBody(<<h>> \o rows, e) :
            h \in CsvHeaders, rows \in TextsUpTo(CsvRows, MaxRows), e \in {<<>>, CsvErrorMsg}}

LongText(n) == [i \in 1..n |-> "x"]

TextBodies ==
    {TextBody(<<>>), TextBody(<<"h", "i">>), TextBody(LongText(MAX_RAW_CONTENT_LENGTH)),
     TextBody(LongText(MAX_RAW_CONTENT_LENGTH + 1))}

NormFiles ==
    {File(ExportDir, <<"data", ".", "json">>, JsonBody(v)) : v \in NormJson}
    \cup {File(ExportDir, <<"MUSIC", ".", "csv">>, b) : b \in CsvBodies}
    \cup {File(ExportDir, <<"page", ".", "htm">>, b) : b \in TextBodies}
    \cup {File(ExportDir, n, Unreadable(PermissionDenied)) :
            n \in {<<"data", ".", "json">>, <<"MUSIC", ".", "csv">>, <<"page", ".", "htm">>}}

FileTypes == {"json", "csv", "html", "txt", "unknown"}

ContentLikelies ==
    {"watch-history", "music-history", "comments", "search-history", "subscriptions",
     "playlists", "watch-event", "media-event", "timestamped-event", "empty", "unknown"}

\* The file types under which the model reads a body.  A body is described by
\* what the reader of its own kind sees; any body can be given to json.load
\* (what is not JSON fails to parse) and to _normalize_unknown (not read).
Readable(file_type, body) ==
    \/ file_type \in {"json", "unknown"}
    \/ file_type = "csv" /\ body.kind \in {"csv", "unreadable"}
    \/ file_type \in {"html", "txt"} /\ body.kind \in {"text", "unreadable"}

Classifications(f, contents) ==
    {FileClassification(PathStr(f), ft, c, "medium", <<>>) :
        ft \in {t \in FileTypes : Readable(t, f.body)}, c \in contents}

Pending == [raised |-> FALSE, timestamp |-> NoDatetime, uncertain |-> FALSE, pending |-> TRUE]

InitTs ==
    /\ ts_in \in TsInputs
    /\ ts_out = Pending
    /\ file = IdleFile
    /\ det = NotCalled
    /\ cls = NotCalled /\ cls2 = NotCalled
    /\ norm = NotNormalized /\ norm2 = NotNormalized
    /\ pc = "idle" /\ input = "directory" /\ walked = <<>> /\ idx = 0
    /\ ingester = NewIngester /\ disk = {} /\ made = 0 /\ calls = <<>> /\ fed = NotFed /\ clock = 0 /\ outputs = <<>> /\ agg = NewAggregator
    /\ tree = {} /\ walk_out = NotWalked /\ walk_out2 = NotWalked
    /\ emitted = FALSE /\ escaped = ""

ParseTimestamp ==
    /\ ts_out = Pending
    /\ ts_out' = parse_timestamp(ts_in)
    /\ UNCHANGED <<auxVars, ts_in, file, det, normVars, runVars>>

NextTs == ParseTimestamp

SpecTs == InitTs /\ [][NextTs]_vars

\* The formats that strptime accepts for the text s
MatchingFormats(s) ==
    {k \in 1..Len(TIMESTAMP_FORMATS) : strptime(s, TIMESTAMP_FORMATS[k]).ok}

\* C10: parse_timestamp returns without raising; it returns (absent, true) for
\* an absent or empty input and for a string that no format matches; otherwise
\* it returns the parse of the first format of the list that matches, with
\* uncertain = false; the timestamp is absent exactly when the flag is true.
C10_ParseTimestampTotalExact ==
    ts_out # Pending =>
        /\ ~ts_out.raised
        /\ (ts_out.timestamp = NoDatetime) <=> ts_out.uncertain
        /\ IF ts_in.t = "none" \/ ts_in.s = <<>> \/ MatchingFormats(ts_in.s) = {}
           THEN ts_out.timestamp = NoDatetime /\ ts_out.uncertain
           ELSE LET first == CHOOSE k \in MatchingFormats(ts_in.s) :
                                 \A j \in MatchingFormats(ts_in.s) : k <= j
                IN /\ ts_out.timestamp = <<strptime(ts_in.s, TIMESTAMP_FORMATS[first])>>
                   /\ ~ts_out.uncertain

\* A string of the last format of the list has been parsed.
C10_Witness ==
    /\ ts_in = PyStr(<<"2023-01-01", "T", "12:30:00">>)
    /\ ts_out # Pending
    /\ ts_out.timestamp = <<[ok |-> TRUE, date |-> "2023-01-01", time |-> "12:30:00", micro |-> ".000000"]>>
    /\ ~ts_out.uncertain

\* ------------------------------------------------------------------------
\* main.py: OmegaParser.parse
\* ------------------------------------------------------------------------
\* The files of the workspace in the order of the walk (sorted paths)
RunFiles ==
    << File(ExportDir, <<"MUSIC", ".", "csv">>,
            CsvBody(<< << <<"Title">>, <<"Channel Name">>, <<"Date">> >>,
                       << <<"Song">>, <<"Artist1">>, <<"2023-05-01">> >> >>, <<>>)),
       File(ExportDir, <<"README">>, TextBody(<<"h", "i">>)),
       File(ExportDir, <<"broken", ".", "json">>, TextBody(<<"{", "o">>)),
       File(ExportDir, <<"data", ".", "json">>,
            JsonBody(PyList(<<PyDict("title" :> PyStr(<<"A">>) @@ "titleUrl" :> PyStr(<<"http://x">>)),
                              PyDict("title" :> PyStr(<<"B">>))>>))),
       File(ExportDir, <<"empty", ".", "json">>, JsonBody(PyList(<<>>))),
       File(ExportDir, <<"header", ".", "json">>,
            JsonBody(PyList(<<PyDict("header" :> PyNum(7) @@ "title" :> PyStr(<<"A">>))>>))),
       File(ExportDir, <<"page", ".", "htm">>, Unreadable(PermissionDenied)),
       File(ExportDir, <<"watch", "-", "History", ".", "json">>, JsonBody(PyDict("zeta" :> PyNum(1)))) >>

\* The walks of at most MaxFiles files: subsequences of RunFiles
Walks ==
    {SelectSeq(RunFiles, LAMBDA f : f \in S) :
        S \in {T \in SUBSET {RunFiles[i] : i \in 1..Len(RunFiles)} : Cardinality(T) <= MaxFiles}}

InitParse ==
    /\ pc = "ingest"
    /\ input \in InputKinds
    /\ walked \in Walks
    /\ idx = 0
    /\ ingester = NewIngester
    /\ disk = {UserDirectory}
    /\ made = 0
    /\ calls = <<>> /\ fed = NotFed /\ clock = 0 /\ outputs = <<>>
    /\ tree = {} /\ walk_out = NotWalked /\ walk_out2 = NotWalked
    /\ agg = NewAggregator
    /\ emitted = FALSE
    /\ escaped = ""
    /\ file = IdleFile
    /\ det = NotCalled
    /\ cls = NotCalled /\ cls2 = NotCalled
    /\ norm = NotNormalized /\ norm2 = NotNormalized
    /\ ts_in = PyNone
    /\ ts_out = Pending

\* datetime.now(): a reading of the wall clock, which is taken not to step
\* back in the course of a run
Now(last) == last..MaxClock

\* A datetime read from the clock
Instant(t) == <<t>>

\* start_time = datetime.now(); workspace = self.ingester.ingest(input_path),
\* then the walker and the aggregator are made and the summary gets start_time
Ingest ==
    /\ pc = "ingest"
    /\ \E t \in Now(clock) :
          /\ clock' = t
          /\ agg' = IF IngestError(input) = ""
                    THEN [NewAggregator EXCEPT !.start_time = Instant(t)]
                    ELSE agg
    /\ ingester' = ingest(ingester, input, mkdtemp(made + 1))
    /\ disk' \in DiskAfterIngest(disk, input, mkdtemp(made + 1))
    /\ made' = IF input \in ZipKinds THEN made + 1 ELSE made
    /\ escaped' = IngestError(input)
    /\ pc' = IF IngestError(input) = "" THEN "process" ELSE "cleanup"
    /\ UNCHANGED <<auxVars, input, walked, idx, emitted, outputs, file, det, normVars, tsVars>>

\* One turn of the loop over walker.walk(): detect, add_file, normalize_file,
\* add_records; an exception of detect leaves the loop and parse
ProcessFile ==
    /\ pc = "process"
    /\ idx < Len(walked)
    /\ LET f == walked[idx + 1]
       IN \E sample \in KeySamples(InspectedKeys(f)) :
             LET classification == detect(f, sample)
                 records == normalize_file(f, classification).records
             IN /\ file' = f
                /\ det' = classification
                /\ IF classification.status = "raised"
                   THEN /\ escaped' = classification.exc
                        /\ pc' = "cleanup"
                        /\ UNCHANGED <<idx, agg, norm>>
                   ELSE /\ agg' = add_records(add_file(agg, classification), records)
                        /\ norm' = Normalized(records)
                        /\ idx' = idx + 1
                        /\ UNCHANGED <<pc, escaped>>
    /\ UNCHANGED <<auxVars, input, walked, ingester, disk, made, emitted, clock, outputs, cls, cls2, norm2, tsVars>>

\* The four calls parse makes on the emitter, in order
EmitterCalls == <<"emit_summary", "emit_by_content_type", "emit_by_channel", "emit_unclassified">>

\* What a call on the emitter is given: the summary and the groupings, as
\* the aggregator holds them at the call, after the loop took `taken` files
EmitterCall(name, a, taken) ==
    [call |-> name, taken |-> taken, total_files |-> a.total_files,
     total_records |-> a.total_records, start_time |-> a.start_time, end_time |-> a.end_time]

\* Steps 5 and 6 of parse with the test of the end of the loop left out
EmitBeforeLoopEnd ==
    /\ pc = "process"
    /\ \E t \in Now(clock) :
          LET final == [agg EXCEPT !.end_time = Instant(t)]
          IN /\ clock' = t
             /\ agg' = final
             /\ outputs' = [i \in 1..Len(EmitterCalls) |-> EmitterCall(EmitterCalls[i], final, idx)]
    /\ emitted' = TRUE
    /\ pc' = "cleanup"
    /\ UNCHANGED <<auxVars, input, walked, idx, ingester, disk, made, escaped, file, det, normVars, tsVars>>

\* The loop is over: end_time = datetime.now() finalizes the summary and the
\* four outputs are written
Emit ==
    /\ pc = "process"
    /\ idx = Len(walked)
    /\ \E t \in Now(clock) :
          LET final == [agg EXCEPT !.end_time = Instant(t)]
          IN /\ clock' = t
             /\ agg' = final
             /\ outputs' = [i \in 1..Len(EmitterCalls) |-> EmitterCall(EmitterCalls[i], final, idx)]
    /\ emitted' = TRUE
    /\ pc' = "cleanup"
    /\ UNCHANGED <<auxVars, input, walked, idx, ingester, disk, made, escaped, file, det, normVars, tsVars>>

\* finally: self.ingester.cleanup(); shutil.rmtree may fail, the failure is
\* logged and temp_dir is forgotten all the same
Cleanup ==
    /\ pc = "cleanup"
    /\ ingester' = cleanup(ingester, ingester.temp_dir \in disk)
    /\ disk' \in DiskAfterCleanup(ingester, disk)
    /\ pc' = IF escaped = "" THEN "done" ELSE "failed"
    /\ UNCHANGED <<auxVars, input, walked, idx, made, agg, emitted, escaped, clock, outputs, file, det, normVars, tsVars>>

NextParse == Ingest \/ ProcessFile \/ Emit \/ Cleanup

SpecParse == InitParse /\ [][NextParse]_vars

\* C4: once ingestion has succeeded, no failure raised while classifying or
\* normalizing any one file escapes the per-file loop: every file yielded by
\* the walker is passed to add_file and add_records and the run reaches the
\* emission step.
C4_NoFileAbortsTheRun ==
    (pc \in {"done", "failed"} /\ IngestError(input) = "")
    => /\ escaped = ""
       /\ agg.total_files = Len(walked)
       /\ emitted

\* ------------------------------------------------------------------------
\* Specification of FileDetector.detect over the sample files
\* ------------------------------------------------------------------------
InitDetect ==
    /\ file \in DetectFiles
    /\ det = NotCalled
    /\ ts_in = PyNone
    /\ ts_out = Pending
    /\ cls = NotCalled /\ cls2 = NotCalled
    /\ norm = NotNormalized /\ norm2 = NotNormalized
    /\ pc = "idle" /\ input = "directory" /\ walked = <<>> /\ idx = 0
    /\ ingester = NewIngester /\ disk = {} /\ made = 0 /\ calls = <<>> /\ fed = NotFed /\ clock = 0 /\ outputs = <<>> /\ agg = NewAggregator
    /\ tree = {} /\ walk_out = NotWalked /\ walk_out2 = NotWalked
    /\ emitted = FALSE /\ escaped = ""

Detect ==
    /\ det.status = "pending"
    /\ \E sample \in KeySamples(InspectedKeys(file)) : det' = detect(file, sample)
    /\ UNCHANGED <<auxVars, file, tsVars, normVars, runVars>>

NextDetect == Detect

SpecDetect == InitDetect /\ [][NextDetect]_vars

\* C1: detect never raises: whatever the file's name and content, it returns a
\* FileClassification.
C1_DetectNeverRaises == det.status # "raised"

\* C3: a JSON file whose name matches no filename rule and whose top-level
\* value is the empty array is classified 'empty' with confidence 'high' and
\* the note 'Empty JSON array'.
C3_EmptyArrayIsEmptyHigh ==
    (/\ det.status # "pending"
     /\ TypeMap(get_file_extension(file.name)) = "json"
     /\ \A w \in {"watch", "history", "comment", "search", "subscription", "playlist"} :
            ~Contains(Lower(file.name), w)
     /\ file.body = JsonBody(PyList(<<>>)))
    => /\ det.status = "returned"
       /\ det.content_likely = "empty"
       /\ det.confidence = "high"
       /\ \E i \in 1..Len(det.notes) : det.notes[i] = <<"Empty JSON array">>

\* C8: filename rules outrank structural inspection, first match wins: a name
\* containing 'watch' or 'history' gives 'music-history' if it also contains
\* 'music' and 'watch-history' otherwise; else 'comment' gives 'comments',
\* 'search' 'search-history', 'subscription' 'subscriptions', 'playlist'
\* 'playlists'; each with confidence 'medium', whatever the file's type and
\* content.
C8_FilenameRulesFirst ==
    LET n == Lower(file.name)
        expected ==
            CASE Contains(n, "watch") \/ Contains(n, "history") ->
                    IF Contains(n, "music") THEN "music-history" ELSE "watch-history"
              [] ~(Contains(n, "watch") \/ Contains(n, "history")) /\ Contains(n, "comment") ->
                    "comments"
              [] (\A w \in {"watch", "history", "comment"} : ~Contains(n, w))
                    /\ Contains(n, "search") ->
                    "search-history"
              [] (\A w \in {"watch", "history", "comment", "search"} : ~Contains(n, w))
                    /\ Contains(n, "subscription") ->
                    "subscriptions"
              [] (\A w \in {"watch", "history", "comment", "search", "subscription"} : ~Contains(n, w))
                    /\ Contains(n, "playlist") ->
                    "playlists"
              [] OTHER -> "none"
    IN (det.status # "pending" /\ expected # "none")
       => /\ det.status = "returned"
          /\ det.content_likely = expected
          /\ det.confidence = "medium"

\* A JSON file with no recognizable key, named with 'search' and 'History',
\* has been classified 'watch-history'.
C8_Witness ==
    /\ file.name = <<"search", "History", ".", "json">>
    /\ file.body = JsonBody(PyDict("zeta" :> PyNum(1)))
    /\ det.status = "returned"
    /\ det.content_likely = "watch-history"
    /\ det.confidence = "medium"

\* ------------------------------------------------------------------------
\* Specification of Normalizer.normalize_file: a file, a classification, and
\* a second call on the same file with a classification of its own
\* ------------------------------------------------------------------------
InitNormalize ==
    /\ file \in NormFiles
    /\ cls \in Classifications(file, ContentLikelies)
    /\ cls2 = NotCalled
    /\ norm = NotNormalized
    /\ norm2 = NotNormalized
    /\ det = NotCalled
    /\ ts_in = PyNone
    /\ ts_out = Pending
    /\ pc = "idle" /\ input = "directory" /\ walked = <<>> /\ idx = 0
    /\ ingester = NewIngester /\ disk = {} /\ made = 0 /\ calls = <<>> /\ fed = NotFed /\ clock = 0 /\ outputs = <<>> /\ agg = NewAggregator
    /\ tree = {} /\ walk_out = NotWalked /\ walk_out2 = NotWalked
    /\ emitted = FALSE /\ escaped = ""

NormalizeFile ==
    /\ norm.status = "pending"
    /\ norm' = normalize_file(file, cls)
    /\ UNCHANGED <<auxVars, file, det, tsVars, cls, cls2, norm2, runVars>>

NormalizeAgain ==
    /\ norm.status = "returned"
    /\ norm2.status = "pending"
    /\ \E c \in Classifications(file, {"comments", "unknown"}) :
          /\ cls2' = c
          /\ norm2' = normalize_file(file, c)
    /\ UNCHANGED <<auxVars, file, det, tsVars, cls, norm, runVars>>

NextNormalize == NormalizeFile \/ NormalizeAgain

SpecNormalize == InitNormalize /\ [][NextNormalize]_vars

\* The records of the first call
Records == norm.records

NothingToExtract ==
    \/ /\ cls.file_type = "json"
       /\ file.body.kind = "json"
       /\ \/ file.body.json.t \in {"bool", "num", "str"}
          \/ /\ file.body.json.t = "list"
             /\ \A i \in 1..Len(file.body.json.l) : file.body.json.l[i].t # "dict"
    \/ /\ cls.file_type = "csv"
       /\ file.body.kind = "csv"
       /\ file.body.error = <<>>
       /\ \A i \in 2..Len(file.body.lines) : file.body.lines[i] = <<>>

C5_AbsentTimestampIsFlagged ==
    norm.status = "returned" =>
        \A i \in 1..Len(Records) :
            Records[i].timestamp = NoDatetime
            => (Records[i].timestamp_uncertain /\ Records[i].parsing_notes # <<>>)

\* msg occurs in text
Carries(text, msg) ==
    \E i \in 1..(Len(text) - Len(msg) + 1) : SubSeq(text, i, i + Len(msg) - 1) = msg

\* The per-file failures of normalize_file and the message of each
FailureMessages ==
    (IF cls.file_type = "json" /\ file.body.kind # "json" THEN {<<"Failed to parse JSON">>} ELSE {})
    \cup (IF cls.file_type \in {"csv", "html", "txt"} /\ file.body.kind = "unreadable"
          THEN {file.body.error} ELSE {})
    \cup (IF cls.file_type = "csv" /\ file.body.kind = "csv" /\ file.body.error # <<>>
             /\ \A i \in 2..Len(file.body.lines) :
                    Len(file.body.lines[i]) <= Len(file.body.lines[1])
          THEN {file.body.error} ELSE {})
    \cup (IF cls.file_type = "unknown" THEN {<<cls.file_type>>} ELSE {})

\* C6: every per-file failure in normalize_file (unparseable JSON, an
\* exception while reading or parsing a CSV, a failure to open or read an html
\* or txt file, an unknown file type) yields exactly one record, with
\* content_type and source_type 'unknown', raw_data carrying the failure
\* message and a parsing note that reports the failure.
C6_FailureYieldsErrorRecord ==
    norm.status = "returned" =>
        \A msg \in FailureMessages :
            /\ Len(Records) = 1
            /\ Records[1].content_type = "unknown"
            /\ Records[1].source_type = "unknown"
            /\ \E k \in DOMAIN Records[1].raw_data :
                  /\ Records[1].raw_data[k].t = "str"
                  /\ Carries(Records[1].raw_data[k].s, msg)
            /\ \E n \in 1..Len(Records[1].parsing_notes) : Carries(Records[1].parsing_notes[n], msg)

\* The record ids of a list of records, in order
Ids(records) == [i \in 1..Len(records) |-> records[i].record_id]

\* C7 as stated: two calls of normalize_file on the same path with the same
\* content return lists of the same length with identical record_id at every
\* position, independent of the classification passed.
C7_IdsIndependentOfClassification ==
    (norm.status = "returned" /\ norm2.status = "returned") => Ids(norm.records) = Ids(norm2.records)

\* C7 (amended): two calls of normalize_file on the same path with the same
\* content and classifications of the same file_type return lists of the same
\* length with identical record_id at every position, whatever the
\* content_likely, confidence and notes of the classifications.
C7_IdsIndependentOfContentLikely ==
    (norm.status = "returned" /\ norm2.status = "returned" /\ cls.file_type = cls2.file_type)
    => Ids(norm.records) = Ids(norm2.records)

\* A JSON array of two objects has been normalized twice, under two
\* classifications that differ in content_likely.
C7_Witness ==
    /\ norm.status = "returned" /\ norm2.status = "returned"
    /\ cls.file_type = "json" /\ cls2.file_type = "json"
    /\ cls.content_likely = "watch-event" /\ cls2.content_likely = "comments"
    /\ Len(norm.records) = 2
    /\ Ids(norm2.records) = <<generate_record_id(PathStr(file), 0), generate_record_id(PathStr(file), 1)>>

\* The object elements of a JSON array, in order
ObjectElements(items) == SelectSeq(items, LAMBDA v : v.t = "dict")

\* C9: for every record that normalize_file produces from a JSON object or a
\* CSV row, raw_data equals the original object or row (same keys, same
\* values); for an html or txt file raw_data holds exactly the first 1000
\* characters of the file's text (the whole text when it is shorter).
C9_RawDataRoundTrip ==
    norm.status = "returned" =>
        /\ (cls.file_type = "json" /\ file.body.kind = "json" /\ file.body.json.t = "dict")
           => (Len(Records) = 1 /\ PyDict(Records[1].raw_data) = file.body.json)
        /\ (cls.file_type = "json" /\ file.body.kind = "json" /\ file.body.json.t = "list")
           => [i \in 1..Len(Records) |-> PyDict(Records[i].raw_data)]
              = ObjectElements(file.body.json.l)
        /\ (cls.file_type = "csv" /\ file.body.kind = "csv" /\ ~(\E msg \in FailureMessages : TRUE)
            /\ Len(file.body.lines) > 0)
           => LET header == file.body.lines[1]
                  rows == SelectSeq(Tail(file.body.lines), LAMBDA r : r # <<>>)
              IN \A i \in 1..Len(Records) :
                    (i <= Len(rows) /\ Len(rows[i]) = Len(header))
                    => /\ DOMAIN Records[i].raw_data = {CellKey(header[j]) : j \in 1..Len(header)}
                       /\ \A j \in 1..Len(header) :
                             Records[i].raw_data[CellKey(header[j])] = PyStr(rows[i][j])
        /\ (cls.file_type \in {"html", "txt"} /\ file.body.kind = "text")
           => /\ Len(Records) = 1
              /\ \E k \in DOMAIN Records[1].raw_data :
                    Records[1].raw_data[k] =
                        PyStr(IF Len(file.body.text) <= 1000 THEN file.body.text
                              ELSE [i \in 1..1000 |-> file.body.text[i]])

\* C11: for every readable CSV file normalize_file yields exactly one record
\* per data row, in row order, the k-th data row (0-based) giving the record
\* with id generate_record_id(path, k), whatever the row's number of cells;
\* under the header Title, Channel Name, Date the row Song, Artist1,
\* 2023-05-01 gives title 'Song', channel 'Artist1', timestamp_uncertain false.
C11_OneRecordPerCsvRow ==
    (/\ norm.status = "returned"
     /\ cls.file_type = "csv"
     /\ file.body.kind = "csv"
     /\ file.body.error = <<>>
     /\ file.body.lines # <<>>)
    => LET rows == DataRows(file.body.lines)
       IN /\ Ids(Records) = [k \in 1..Len(rows) |-> generate_record_id(PathStr(file), k - 1)]
          /\ \A k \in 1..Len(rows) :
                (/\ Head(file.body.lines) = << <<"Title">>, <<"Channel Name">>, <<"Date">> >>
                 /\ rows[k] = << <<"Song">>, <<"Artist1">>, <<"2023-05-01">> >>)
                => /\ Records[k].title = PyStr(<<"Song">>)
                   /\ Records[k].channel = PyStr(<<"Artist1">>)
                   /\ ~Records[k].timestamp_uncertain

\* The positions (1-based) of the object elements of a JSON array, in order
ObjectPositions(items) ==
    SelectSeq([i \in 1..Len(items) |-> i], LAMBDA i : items[i].t = "dict")

\* C18: for a parseable JSON file normalize_file yields one record per object
\* element of a top-level array and none for any other element; the element
\* at array position i, when it is an object, gives the record with id
\* generate_record_id(path, i), so the number of records is the number of
\* object elements; a top-level object yields exactly one record at index 0.
C18_JsonRecordsKeepArrayPosition ==
    (norm.status = "returned" /\ cls.file_type = "json" /\ file.body.kind = "json")
    => /\ file.body.json.t = "list"
          => LET positions == ObjectPositions(file.body.json.l)
             IN /\ Len(Records) = Len(ObjectElements(file.body.json.l))
                /\ Ids(Records) = [k \in 1..Len(positions) |->
                                      generate_record_id(PathStr(file), positions[k] - 1)]
                /\ \A k \in 1..Len(positions) :
                      PyDict(Records[k].raw_data) = file.body.json.l[positions[k]]
       /\ file.body.json.t = "dict"
          => /\ Ids(Records) = <<generate_record_id(PathStr(file), 0)>>
             /\ PyDict(Records[1].raw_data) = file.body.json

\* The array [7, {"title": "B"}] has given one record, with index 1.
C18_Witness ==
    /\ norm.status = "returned"
    /\ cls.file_type = "json"
    /\ file.body = JsonBody(PyList(<<PyNum(7), PyDict("title" :> PyStr(<<"B">>))>>))
    /\ Ids(Records) = <<generate_record_id(PathStr(file), 1)>>

\* The records of the first call are records of JSON objects or of CSV rows
RecordsOfObjectsOrRows ==
    \/ /\ cls.file_type = "json"
       /\ file.body.kind = "json"
       /\ file.body.json.t \in {"list", "dict"}
    \/ /\ cls.file_type = "csv"
       /\ file.body.kind = "csv"
       /\ file.body.error = <<>>
       /\ \A i \in 2..Len(file.body.lines) : Len(file.body.lines[i]) <= Len(file.body.lines[1])

\* The mapping of content_likely to content_type
ContentTypeOf(content_likely) ==
    CASE content_likely \in {"watch-history", "watch-event"}         -> "watch-event"
      [] content_likely = "music-history"                            -> "music-video"
      [] content_likely = "comments"                                 -> "comment"
      [] content_likely = "search-history"                           -> "search"
      [] content_likely \in {"media-event", "timestamped-event"}     -> "video"
      [] OTHER                                                       -> "unknown"

\* C19: every record of a JSON object or CSV row has the content_type that
\* the mapping gives for classification.content_likely, so all records of one
\* file share one content_type; every record's content_type is in {video,
\* music-video, watch-event, comment, search, unknown} and its source_type in
\* {channel, platform-surface, unknown}; both records of
\* [{title, titleUrl}, {title}] in data.json, classified by detect, are
\* watch-event.
C19_ContentTypeFromClassification ==
    norm.status = "returned" =>
        /\ RecordsOfObjectsOrRows
           => \A i \in 1..Len(Records) : Records[i].content_type = ContentTypeOf(cls.content_likely)
        /\ \A i \in 1..Len(Records) :
              /\ Records[i].content_type
                    \in {"video", "music-video", "watch-event", "comment", "search", "unknown"}
              /\ Records[i].source_type \in {"channel", "platform-surface", "unknown"}
        /\ (/\ file.name = <<"data", ".", "json">>
            /\ file.body = JsonBody(PyList(<<PyDict("title" :> PyStr(<<"A">>) @@ "titleUrl" :> PyStr(<<"http://x">>)),
                                              PyDict("title" :> PyStr(<<"B">>))>>)))
           => \A sample \in KeySamples(InspectedKeys(file)) :
                 LET classification == detect(file, sample)
                     records == normalize_file(file, classification).records
                 IN /\ classification.status = "returned"
                    /\ Len(records) = 2
                    /\ \A i \in 1..2 : records[i].content_type = "watch-event"

\* The row Song, Artist1, 2023-05-01 of a file classified 'music-history'
\* has given a 'music-video' record whose source is a channel.
C19_Witness ==
    /\ norm.status = "returned"
    /\ cls.file_type = "csv"
    /\ cls.content_likely = "music-history"
    /\ Len(Records) = 2
    /\ Records[2].content_type = "music-video"
    /\ Records[2].source_type = "channel"
    /\ Records[2].channel = PyStr(<<"Artist1">>)

\* C20: structural classification of a JSON object (the top-level object, or
\* the first element of a non-empty top-level array) applies its rules in
\* order, first match wins: title and titleUrl give watch-event/high; else
\* header and title with a header string containing 'products' give
\* watch-event/medium; else time and title give media-event/medium; else any
\* of timestamp, time, date gives timestamped-event/low; else unknown/low with
\* a note listing at most 5 keys in sorted order; a non-empty array whose
\* first element is not an object gives unknown/low.
C20_StructuralRulesInOrder ==
    (/\ det.status # "pending"
     /\ TypeMap(get_file_extension(file.name)) = "json"
     /\ FilenameRule(Lower(file.name)) = ""
     /\ file.body.kind = "json"
     /\ \/ file.body.json.t = "dict"
        \/ file.body.json.t = "list" /\ Len(file.body.json.l) > 0)
    => LET data == file.body.json
           isObject == data.t = "dict" \/ data.l[1].t = "dict"
           obj == IF data.t = "dict" THEN data.d ELSE data.l[1].d
           keys == IF isObject THEN DOMAIN obj ELSE {}
           listed == \E S \in SUBSET keys :
                        /\ Cardinality(S) <= 5
                        /\ \E n \in 1..Len(det.notes) :
                              det.notes[n] = <<"Unrecognized JSON structure with keys: ">> \o Sorted(S)
           expected ==
               IF ~isObject THEN <<"unknown", "low">>
               ELSE IF {"title", "titleUrl"} \subseteq keys THEN <<"watch-event", "high">>
               ELSE IF {"header", "title"} \subseteq keys /\ obj["header"].t = "str"
                       /\ Contains(obj["header"].s, "products")
               THEN <<"watch-event", "medium">>
               ELSE IF {"time", "title"} \subseteq keys THEN <<"media-event", "medium">>
               ELSE IF keys \cap {"timestamp", "time", "date"} # {} THEN <<"timestamped-event", "low">>
               ELSE <<"unknown", "low">>
       IN /\ det.status = "returned"
          /\ det.content_likely = expected[1]
          /\ det.confidence = expected[2]
          /\ (isObject /\ expected[1] = "unknown") => listed

\* ------------------------------------------------------------------------
\* Specification of the Ingester: any sequence of at most MaxCalls calls of
\* ingest and cleanup on one Ingester
\* ------------------------------------------------------------------------
InitIngest ==
    /\ ingester = NewIngester
    /\ disk = {UserDirectory}
    /\ made = 0
    /\ calls = <<>> /\ fed = NotFed /\ clock = 0 /\ outputs = <<>>
    /\ tree = {} /\ walk_out = NotWalked /\ walk_out2 = NotWalked
    /\ pc = "idle" /\ input = "directory" /\ walked = <<>> /\ idx = 0
    /\ agg = NewAggregator /\ emitted = FALSE /\ escaped = ""
    /\ file = IdleFile
    /\ det = NotCalled
    /\ cls = NotCalled /\ cls2 = NotCalled
    /\ norm = NotNormalized /\ norm2 = NotNormalized
    /\ ts_in = PyNone
    /\ ts_out = Pending

\* ingester.ingest(input_path) on an input of any kind
IngestCall ==
    /\ Len(calls) < MaxCalls
    /\ \E kind \in InputKinds :
          /\ ingester' = ingest(ingester, kind, mkdtemp(made + 1))
          /\ disk' \in DiskAfterIngest(disk, kind, mkdtemp(made + 1))
          /\ made' = IF kind \in ZipKinds THEN made + 1 ELSE made
          /\ calls' = Append(calls, [op |-> "ingest", kind |-> kind,
                                     exc |-> IngestError(kind), msg |-> IngestMessage(kind)])
    /\ UNCHANGED <<walkVars, fed, clock, outputs, pc, input, walked, idx, agg, emitted, escaped, file, det, normVars, tsVars>>

\* ingester.cleanup()
CleanupCall ==
    /\ Len(calls) < MaxCalls
    /\ ingester' = cleanup(ingester, ingester.temp_dir \in disk)
    /\ disk' \in DiskAfterCleanup(ingester, disk)
    /\ calls' = Append(calls, [op |-> "cleanup", kind |-> "", exc |-> "", msg |-> ""])
    /\ UNCHANGED <<walkVars, fed, clock, outputs, made, pc, input, walked, idx, agg, emitted, escaped, file, det, normVars, tsVars>>

NextIngest == IngestCall \/ CleanupCall

SpecIngest == InitIngest /\ [][NextIngest]_vars

\* The three fatal cases of ingest
FatalKinds == {"missing", "other-file", "corrupt-zip"}

\* C12: ingest fails distinctly for the three fatal cases: a path that does
\* not exist, an input that is neither a ZIP archive nor a directory, and a
\* corrupt archive each end with an exception, and the exceptions (type and
\* message) of two different cases differ.
C12_FatalCasesFailDistinctly ==
    \A i \in 1..Len(calls) : \A j \in 1..Len(calls) :
        (/\ calls[i].op = "ingest" /\ calls[i].kind \in FatalKinds
         /\ calls[j].op = "ingest" /\ calls[j].kind \in FatalKinds)
        => /\ calls[i].exc # ""
           /\ calls[i].kind # calls[j].kind
              => <<calls[i].exc, calls[i].msg>> # <<calls[j].exc, calls[j].msg>>

\* ingest has been called on a file that is no archive and on a corrupt
\* archive: both calls raised ValueError.
C12_Witness ==
    /\ Len(calls) >= 2
    /\ calls[1].kind = "other-file" /\ calls[1].exc = "ValueError"
    /\ calls[2].kind = "corrupt-zip" /\ calls[2].exc = "ValueError"

\* The last call was cleanup
AfterCleanup == calls # <<>> /\ calls[Len(calls)].op = "cleanup"

\* C13: cleanup is idempotent: after any sequence of ingest and cleanup
\* calls, a cleanup that follows a cleanup leaves the ingester and the
\* temporary directories as they are and does not raise; after a cleanup
\* temp_dir is None, also when removing the temporary directory failed.
C13_CleanupIdempotent ==
    /\ [](AfterCleanup => ingester.temp_dir = "None")
    /\ [][(AfterCleanup /\ AfterCleanup' /\ Len(calls') = Len(calls) + 1)
           => (ingester' = ingester /\ disk' = disk /\ calls'[Len(calls')].exc = "")]_vars

\* A ZIP archive has been ingested and cleanup called twice; the removal of
\* the temporary directory failed, and temp_dir is None.
C13_Witness ==
    /\ Len(calls) = 3
    /\ calls[1].kind = "zip"
    /\ calls[2].op = "cleanup"
    /\ calls[3].op = "cleanup"
    /\ disk = {UserDirectory, mkdtemp(1)}
    /\ ingester.temp_dir = "None"

\* ------------------------------------------------------------------------
\* Specification of FileWalker.walk: a directory tree, and two calls of
\* walk() on it
\* ------------------------------------------------------------------------
\* What the directory 'sub' may hold
SubdirContents ==
    {{},
     {RegularFile(<<"a", ".", "json">>)},
     {RegularFile(<<".", "json">>)},
     {RegularFile(<<"Thumbs", ".", "db">>)},
     {RegularFile(<<".", "data", ".", "json">>)},
     {RegularFile(<<"a", ".", "json">>), RegularFile(<<"b", ".", "csv">>)},
     {Directory(<<"node_modules">>, {RegularFile(<<"a", ".", "json">>)})}}

\* The entries a root directory is made of
EntryPool ==
    {RegularFile(n) : n \in skip_patterns \cup {<<".", "csv">>, <<".", "json">>,
                                                <<".", "data", ".", "json">>,
                                                <<"a", ".", "json">>, <<"b", ".", "csv">>}}
    \cup {Directory(n, {RegularFile(<<"a", ".", "json">>)}) : n \in skip_dirs}
    \cup {Directory(<<"sub">>, c) : c \in SubdirContents}
    \cup {UnreadableDirectory(<<"sub">>, {RegularFile(<<"a", ".", "json">>)}),
          SymLink(<<"link", ".", "json">>, <<"a", ".", "json">>),
          SymLink(<<"zlink">>, <<"sub">>),
          SpecialFile(<<"pipe">>)}

\* The sets of at most n entries with different names
RECURSIVE EntrySets(_)
EntrySets(n) ==
    IF n = 0 THEN {{}}
    ELSE LET smaller == EntrySets(n - 1)
         IN smaller \cup {S \cup {e} : S \in smaller,
                                       e \in {x \in EntryPool : TRUE}}

Trees == {S \in EntrySets(MaxEntries) : \A e1, e2 \in S : e1.name = e2.name => e1 = e2}

InitWalk ==
    /\ tree \in Trees
    /\ walk_out = NotWalked
    /\ walk_out2 = NotWalked
    /\ ingester = NewIngester /\ disk = {} /\ made = 0 /\ calls = <<>> /\ fed = NotFed /\ clock = 0 /\ outputs = <<>>
    /\ pc = "idle" /\ input = "directory" /\ walked = <<>> /\ idx = 0
    /\ agg = NewAggregator /\ emitted = FALSE /\ escaped = ""
    /\ file = IdleFile
    /\ det = NotCalled
    /\ cls = NotCalled /\ cls2 = NotCalled
    /\ norm = NotNormalized /\ norm2 = NotNormalized
    /\ ts_in = PyNone
    /\ ts_out = Pending

\* list(walker.walk())
Walk ==
    /\ walk_out.status = "pending"
    /\ \E listing \in ListingOrders : walk_out' = walk(tree, listing)
    /\ UNCHANGED <<tree, walk_out2, calls, fed, runVars, file, det, normVars, tsVars>>

\* list(walker.walk()) once more, on the unchanged tree
WalkAgain ==
    /\ walk_out.status = "returned"
    /\ walk_out2.status = "pending"
    /\ \E listing \in ListingOrders : walk_out2' = walk(tree, listing)
    /\ UNCHANGED <<tree, walk_out, calls, fed, runVars, file, det, normVars, tsVars>>

NextWalk == Walk \/ WalkAgain

SpecWalk == InitWalk /\ [][NextWalk]_vars

\* The name ends with a recognized data extension, .json or .csv
HasDataExtension(name) ==
    /\ Len(name) >= 2
    /\ SubSeq(name, Len(name) - 1, Len(name)) \in {<<".", "json">>, <<".", "csv">>}

\* C14: walk never yields a file named .DS_Store, Thumbs.db, .gitignore or
\* .gitkeep, never yields a file under a directory named .git, __pycache__,
\* node_modules or .venv, and skips every file whose name starts with '.'
\* except those with a recognized data extension (json, csv), which it
\* yields.
C14_WalkSkipsNoise ==
    walk_out.status = "returned" =>
        /\ \A i \in 1..Len(walk_out.paths) :
              LET path == walk_out.paths[i]
              IN /\ path[Len(path)] \notin {<<".", "DS_Store">>, <<"Thumbs", ".", "db">>,
                                             <<".", "gitignore">>, <<".", "gitkeep">>}
                 /\ \A k \in 1..(Len(path) - 1) :
                       path[k] \notin {<<".", "git">>, <<"__pycache__">>, <<"node_modules">>,
                                       <<".", "venv">>}
        /\ \A item \in tree :
              (item.kind = "file" /\ StartsWithDot(item.name))
              => ((\E i \in 1..Len(walk_out.paths) : walk_out.paths[i] = <<item.name>>)
                  <=> HasDataExtension(item.name))

\* The place of a name in the order of the names
Rank(name) == CHOOSE i \in 1..Len(NameOrder) : NameOrder[i] = name

\* The path p comes before the path q in the lexicographic order of paths
PathBefore(p, q) ==
    \/ \E k \in 1..Len(p) :
          /\ k <= Len(q)
          /\ SubSeq(p, 1, k - 1) = SubSeq(q, 1, k - 1)
          /\ Rank(p[k]) < Rank(q[k])
    \/ Len(p) < Len(q) /\ SubSeq(q, 1, Len(p)) = p

\* The path of the file that a yielded path names, symbolic links followed
RECURSIVE RealPath(_, _)
RealPath(path, entries) ==
    IF path = <<>> THEN <<>>
    ELSE LET item == CHOOSE e \in entries : e.name = Head(path)
             real == Followed(item, entries)
         IN <<real.name>> \o RealPath(Tail(path), real.children)

\* The paths of the regular files below entries that can be read and that no
\* rule filters out: no name on the path starts with '.' or is a noise
\* name, none of its directories is a skipped directory
RECURSIVE KeptFiles(_, _)
KeptFiles(current_path, entries) ==
    UNION {IF StartsWithDot(e.name) \/ e.name \in skip_patterns THEN {}
           ELSE IF e.kind = "file" THEN {Append(current_path, e.name)}
           ELSE IF e.kind = "dir" /\ e.name \notin skip_dirs
           THEN KeptFiles(Append(current_path, e.name), e.children)
           ELSE {} : e \in entries}

\* C15: walk is deterministic and restart-safe: on an unchanged tree every
\* call yields the same finite sequence of paths, in the lexicographic order
\* of the paths (a subdirectory's files at the subdirectory's position), and
\* each regular file that is not filtered out appears exactly once.
C15_WalkDeterministicOnce ==
    /\ (walk_out.status = "returned" /\ walk_out2.status = "returned") => walk_out2 = walk_out
    /\ walk_out.status = "returned"
       => /\ \A i \in 1..(Len(walk_out.paths) - 1) :
                PathBefore(walk_out.paths[i], walk_out.paths[i + 1])
          /\ \A f \in KeptFiles(<<>>, tree) :
                Cardinality({i \in 1..Len(walk_out.paths) :
                                RealPath(walk_out.paths[i], tree) = f}) = 1

\* ------------------------------------------------------------------------
\* The Aggregator on its own: add_file and add_records in any order
\* ------------------------------------------------------------------------
\* A record as a normalizer makes it, with the fields the aggregator reads
FedRecord(n, content_type, source_type, channel, uncertain, notes, detected_format) ==
    NormalizedRecord(generate_record_id(<<"takeout", "/", "data">>, n), <<"takeout", "/", "data">>,
                     content_type, source_type, PyNone,
                     NoDatetime, uncertain, channel, PyNone, "k" :> PyNum(n), detected_format, notes)

\* A record of a channel, an error record, a record without channel or
\* timestamp, and a record of a channel named like a source type whose
\* detected_format is None
WatchOfChannel == FedRecord(0, "watch-event", "channel", PyStr(<<"Artist">>), FALSE, <<>>, "json")

ErrorRecord == FedRecord(1, "unknown", "unknown", PyNone, FALSE, << <<"Parsing error: ">> >>, "csv")

UndatedVideo == FedRecord(2, "video", "platform-surface", PyNone, TRUE, <<TimestampNote>>, "json")

CommentOfUnknown == FedRecord(3, "comment", "channel", PyStr(<<"unknown">>), FALSE, <<>>, "")

\* The lists of records passed to add_records
FedBatches ==
    {<<>>, <<WatchOfChannel>>, <<ErrorRecord, UndatedVideo>>,
     <<CommentOfUnknown, WatchOfChannel, ErrorRecord>>}

\* The classifications passed to add_file
FedClassifications ==
    {FileClassification(<<"watch", ".json">>, "json", "watch", "high", <<>>),
     FileClassification(<<"notes", ".txt">>, "txt", "unknown", "medium", <<>>),
     FileClassification(<<"data", ".json">>, "json", "comments", "low", <<>>)}

InitAggregate ==
    /\ agg = NewAggregator
    /\ fed = NotFed
    /\ ingester = NewIngester /\ disk = {} /\ made = 0 /\ calls = <<>>
    /\ clock = 0 /\ outputs = <<>>
    /\ tree = {} /\ walk_out = NotWalked /\ walk_out2 = NotWalked
    /\ pc = "idle" /\ input = "directory" /\ walked = <<>> /\ idx = 0
    /\ emitted = FALSE /\ escaped = ""
    /\ file = IdleFile
    /\ det = NotCalled
    /\ cls = NotCalled /\ cls2 = NotCalled
    /\ norm = NotNormalized /\ norm2 = NotNormalized
    /\ ts_in = PyNone
    /\ ts_out = Pending

\* aggregator.add_file(classification)
AddFile ==
    /\ fed.calls < MaxFeeds
    /\ \E classification \in FedClassifications : agg' = add_file(agg, classification)
    /\ fed' = [fed EXCEPT !.files = @ + 1, !.calls = @ + 1]
    /\ UNCHANGED <<calls, walkVars, pc, input, walked, idx, ingester, disk, made, emitted, escaped, clock, outputs, file, det, normVars, tsVars>>

\* aggregator.add_records(records)
AddRecords ==
    /\ fed.calls < MaxFeeds
    /\ \E records \in FedBatches :
          /\ agg' = add_records(agg, records)
          /\ fed' = [fed EXCEPT !.records = @ + Len(records), !.calls = @ + 1]
    /\ UNCHANGED <<calls, walkVars, pc, input, walked, idx, ingester, disk, made, emitted, escaped, clock, outputs, file, det, normVars, tsVars>>

NextAggregate == AddFile \/ AddRecords

SpecAggregate == InitAggregate /\ [][NextAggregate]_vars

\* The sum of the counts of a dict of counts
RECURSIVE SumOfCounts(_)
SumOfCounts(d) ==
    IF DOMAIN d = {} THEN 0
    ELSE LET k == CHOOSE x \in DOMAIN d : TRUE
         IN d[k] + SumOfCounts([x \in DOMAIN d \ {k} |-> d[x]])

\* The total length of the lists of a dict of lists
RECURSIVE SumOfLengths(_)
SumOfLengths(d) ==
    IF DOMAIN d = {} THEN 0
    ELSE LET k == CHOOSE x \in DOMAIN d : TRUE
         IN Len(d[k]) + SumOfLengths([x \in DOMAIN d \ {k} |-> d[x]])

\* list `before` is the beginning of list `after`
IsPrefix(before, after) ==
    /\ Len(before) <= Len(after)
    /\ \A i \in 1..Len(before) : after[i] = before[i]

\* No count of dict `after` is under the count dict `before` has for the key
CountsGrow(before, after) ==
    \A k \in DOMAIN before : k \in DOMAIN after /\ before[k] <= after[k]

\* Every group of dict `before` is still in `after`, with its records
GroupsGrow(before, after) ==
    \A k \in DOMAIN before : k \in DOMAIN after /\ IsPrefix(before[k], after[k])

\* C16: after any sequence of add_file and add_records calls total_files is
\* the number of add_file calls; total_records is the number of records
\* added, the sum of the by_content_type counts, the sum of the by_source
\* counts and the total length of the records_by_content_type groups;
\* uncertain_records <= total_records; and no call lowers a count or takes a
\* record out of a group.
C16_AggregatorMonotoneConsistent ==
    /\ [](/\ agg.total_files = fed.files
          /\ agg.total_records = fed.records
          /\ agg.total_records = SumOfCounts(agg.by_content_type)
          /\ agg.total_records = SumOfCounts(agg.by_source)
          /\ agg.total_records = SumOfLengths(agg.records_by_content_type)
          /\ agg.uncertain_records <= agg.total_records)
    /\ [][/\ agg.total_files <= agg'.total_files
          /\ agg.total_records <= agg'.total_records
          /\ agg.uncertain_records <= agg'.uncertain_records
          /\ CountsGrow(agg.by_content_type, agg'.by_content_type)
          /\ CountsGrow(agg.by_source, agg'.by_source)
          /\ CountsGrow(agg.by_file_type, agg'.by_file_type)
          /\ GroupsGrow(agg.records_by_content_type, agg'.records_by_content_type)
          /\ GroupsGrow(agg.records_by_channel, agg'.records_by_channel)
          /\ IsPrefix(agg.unclassified_records, agg'.unclassified_records)
          /\ IsPrefix(agg.unclassified_files, agg'.unclassified_files)]_vars

\* Files and records were added in several calls; a channel named "unknown"
\* and the source type "unknown" share one by_source count; some records are
\* uncertain and some are not
C16_Witness ==
    /\ fed.files >= 2
    /\ fed.records >= 4
    /\ fed.calls = MaxFeeds
    /\ <<"unknown">> \in DOMAIN agg.by_source
    /\ agg.by_source[<<"unknown">>] >= 2
    /\ <<"Artist">> \in DOMAIN agg.records_by_channel
    /\ 0 < agg.uncertain_records
    /\ agg.uncertain_records < agg.total_records
    /\ agg.unclassified_files # <<>>

C21_SourceCountIsChannelGroupLength ==
    \A c \in DOMAIN agg.records_by_channel :
       /\ c \in DOMAIN agg.by_source
       /\ agg.by_source[c] = Len(agg.records_by_channel[c])

\* ------------------------------------------------------------------------
\* What cleanup removes
\* ------------------------------------------------------------------------
\* The directories tempfile.mkdtemp has made for _extract_zip
TemporaryDirectories == {mkdtemp(n) : n \in 1..made}

\* C22: after any sequence of ingest and cleanup calls on one Ingester, the
\* directory the user supplied as input is still there, and a directory that
\* a call removes is a temporary directory made by _extract_zip.
C22_CleanupRemovesOnlyOwnStorage ==
    /\ [](UserDirectory \in disk)
    /\ [][\A d \in disk \ disk' : d \in TemporaryDirectories /\ d # UserDirectory]_vars

\* A ZIP archive was ingested, then the user's directory without a cleanup in
\* between, then cleanup was called: the temporary directory is gone and the
\* user's directory is not
C22_Witness ==
    /\ Len(calls) = 3
    /\ calls[1].kind = "zip"
    /\ calls[2].kind = "directory"
    /\ calls[3].op = "cleanup"
    /\ made = 1
    /\ mkdtemp(1) \notin disk
    /\ UserDirectory \in disk
    /\ ingester = NewIngester

\* ------------------------------------------------------------------------
\* Provenance of the records
\* ------------------------------------------------------------------------
\* The records of a list returned for file f under classification c name f,
\* carry the file type of c and have pairwise distinct indices
ConsistentProvenance(records, f, c) ==
    /\ \A i \in 1..Len(records) :
          /\ records[i].source_file = PathStr(f)
          /\ records[i].detected_format = c.file_type
    /\ \A i, j \in 1..Len(records) :
          i # j => records[i].record_id.index # records[j].record_id.index

\* C23: for every file and every classification whose file_type is json,
\* csv, html, txt or unknown, every record normalize_file returns, error
\* records included, has source_file = str(file_path) and detected_format =
\* the classification's file_type, and the records of one list have pairwise
\* distinct indices.
C23_ProvenanceConsistent ==
    /\ (norm.status = "returned" /\ cls.file_type \in FileTypes)
          => ConsistentProvenance(norm.records, file, cls)
    /\ (norm2.status = "returned" /\ cls2.file_type \in FileTypes)
          => ConsistentProvenance(norm2.records, file, cls2)

\* A CSV file of two rows gave two records when read as csv, and one error
\* record when the same file was classified json
C23_Witness ==
    /\ norm.status = "returned"
    /\ cls.file_type = "csv"
    /\ Len(norm.records) = 2
    /\ norm.records[1].record_id.index = 0
    /\ norm.records[2].record_id.index = 1
    /\ norm2.status = "returned"
    /\ cls2.file_type = "json"
    /\ Len(norm2.records) = 1
    /\ DOMAIN norm2.records[1].raw_data = {"error"}
    /\ norm2.records[1].detected_format = "json"

====
